---- MODULE Spec2Model ----
(***************************************************************************)
(* A model of the FASTER key-value store's C interface layer: the value    *)
(* and context classes of the C shim (generation lock, byte-buffer, u64    *)
(* and test contexts), the in-memory scan iterator, and the operation      *)
(* engine (index, hybrid log, Upsert/Read/RMW/Delete) that drives them.    *)
(* Addresses and sizes are in bytes.                                       *)
(***************************************************************************)
EXTENDS Integers, Sequences, FiniteSets, TLC

VARIABLES
  stype,                   \* which store the handle holds (faster_t::type)
  log,                     \* hybrid log: record start address -> record
  index,                   \* hash index: tag -> address of the chain head (0 = none)
  tail_address,
  read_only_address,
  safe_read_only_address,
  head_address,
  begin_address,
  iter,                    \* the FasterIterator object (pc = "none" before ScanInMemory)
  out,                     \* the FasterIteratorRecord: address its key_/value_ point into (0 = NULL)
  sess,                    \* per-session position inside an operation (concurrent runs)
  res,                     \* what the last finished operation returned
  hist                     \* history kept to state the properties

vars == <<stype, log, index, tail_address, read_only_address, safe_read_only_address,
          head_address, begin_address, iter, out, sess, res, hist>>

anchors == <<tail_address, read_only_address, safe_read_only_address, head_address, begin_address>>

-----------------------------------------------------------------------------
(* Bounds of the model *)

NumKeys == 2
MaxRecords == 3
MaxU64 == 4
PageSize == 128
GenBits == 2

\* in-place writes a record takes in the single-session scenarios
MaxInPlace == 1

Keys == 1..NumKeys
\* the scan scenarios use one key more, enough to fill the first page
ScanKeys == 1..(NumKeys + 1)

-----------------------------------------------------------------------------
(* Status codes, enum faster_status *)

Ok == 0
Pending == 1
NotFound == 2

-----------------------------------------------------------------------------
(* GenLock: a control word  gen_number : GenBits | locked : 1 | replaced : 1.  *)
(* The source word is 64 bits wide with a 62-bit gen_number; the model keeps  *)
(* the layout and the modular arithmetic at a smaller width.                  *)

Pow2(n) == 2 ^ n

LockedBit == Pow2(GenBits)

ReplacedBit == Pow2(GenBits + 1)

WordMod == Pow2(GenBits + 2)

gen_number(control) == control % LockedBit

locked(control) == (control \div LockedBit) % 2

\* a replaced bit that always reads 0
replaced_Never(control) == 0

replaced(control) == (control \div ReplacedBit) % 2

\* try_lock: expected is the loaded word with locked and replaced cleared,
\* desired is expected with locked set; the compare-exchange is against `current`.
\* an expected word that keeps the locked and replaced bits it was loaded with
try_lock_expected_Raw(loaded) == loaded

try_lock_expected(loaded) == gen_number(loaded)

try_lock_desired(loaded) == gen_number(loaded) + LockedBit

\* an unlock that clears the locked bit and leaves the generation as it is
unlock_KeepGen(control, repl) ==
  IF ~repl THEN (control - LockedBit) % WordMod
  ELSE (control + (ReplacedBit - LockedBit)) % WordMod

\* the whole try_lock with no other thread between its load and its CAS
try_lock(control) ==
  IF control = try_lock_expected(control)
    THEN [acquired |-> TRUE, replaced |-> FALSE, control |-> try_lock_desired(control)]
    ELSE [acquired |-> FALSE, replaced |-> replaced(control) = 1, control |-> control]

\* an unlock that leaves the word as it is
unlock_Nothing(control, repl) == control

unlock(control, repl) ==
  IF ~repl
    THEN (control - (LockedBit - 1)) % WordMod
    ELSE (control + (ReplacedBit - LockedBit + 1)) % WordMod

-----------------------------------------------------------------------------
(* Store types and value layouts *)

StoreBytes == "bytes"     \* FasterKv<Key, Value, disk_t>: byte-buffer keys and values
StoreU64 == "u64"         \* FasterKv<U64Key, U64Value, disk_t>
StoreA64 == "a64"         \* the u64 shim whose Value is a union with std::atomic<uint64_t>
StoreU8 == "u8"           \* the store of the iterator test
StorePerson == "person"   \* FasterKv<U64Key, PersonValue, disk_t>
StoreAuctions == "auctions" \* FasterKv<U64Key, AuctionsValue, disk_t>
StoreP64 == "p64"         \* the u64-key interface whose Value holds a pointer and a size
StoreU64Pair == "u64_pair" \* FasterKv<U64Key, U64PairValue, disk_t>
StoreTenElements == "ten_elements" \* FasterKv<U64Key, TenElementsValue, disk_t>
StoreAuctionBids == "auction_bids" \* FasterKv<U64Key, AuctionBidsValue, disk_t>

SizeofValue == 24

SizeofKey == 16

Pad8(n) == ((n + 7) \div 8) * 8

BytesValue(g, sz, len, buf) == [gen_lock |-> g, size_ |-> sz, length_ |-> len, buffer |-> buf]

WordValue(v) == [value_ |-> v]

SizeofPersonValue == 24

SizeofU64 == 8

\* PersonValue: three lengths, then the bytes of name, city and state
PersonValue(nl, cl, sl, bytes) ==
  [name_length_ |-> nl, city_length_ |-> cl, state_length_ |-> sl, buffer |-> bytes]

SizeofP64Value == 16

\* Value of the pointer interface: value_ stands for the bytes it points to
P64Value(bytes, size) == [value_ |-> bytes, size_ |-> size]

\* AuctionsValue: a length, then that many 64-bit words
AuctionsValue(len, words) == [length_ |-> len, buffer |-> words]

\* memcpy(value.buffer(), input_, length_): the first Len(input) bytes are overwritten
memcpy(buf, input) == [i \in 1..Len(buf) |-> IF i <= Len(input) THEN input[i] ELSE buf[i]]

-----------------------------------------------------------------------------
(* Upsert contexts *)

UpsertContext_value_size(input) == SizeofValue + Len(input)

UpsertContext_Put(input) ==
  BytesValue(0, SizeofValue + Len(input), Len(input), input)

\* a PutAtomic that copies the bytes but leaves length_ as it was
PutAtomic_KeepLength(input, value) ==
  LET l == try_lock(value.gen_lock) IN
  IF ~l.acquired
    THEN [ok |-> FALSE, value |-> value]
    ELSE IF value.size_ < SizeofValue + Len(input)
      THEN [ok |-> FALSE, value |-> [value EXCEPT !.gen_lock = unlock(l.control, TRUE)]]
      ELSE [ok |-> TRUE,
            value |-> [value EXCEPT !.buffer = memcpy(value.buffer, input),
                                    !.gen_lock = unlock(l.control, FALSE)]]

\* PutAtomic run to completion with no other thread on the record
UpsertContext_PutAtomic(input, value) ==
  LET l == try_lock(value.gen_lock) IN
  IF ~l.acquired
    THEN [ok |-> FALSE, value |-> value]
    ELSE IF value.size_ < SizeofValue + Len(input)
      THEN [ok |-> FALSE, value |-> [value EXCEPT !.gen_lock = unlock(l.control, TRUE)]]
      ELSE [ok |-> TRUE,
            value |-> [value EXCEPT !.length_ = Len(input),
                                    !.buffer = memcpy(value.buffer, input),
                                    !.gen_lock = unlock(l.control, FALSE)]]

\* UpsertPersonContext: PutAtomic writes what Put writes, whatever the value holds
UpsertPersonContext_value_size(input) ==
  SizeofPersonValue + Len(input.name) + Len(input.city) + Len(input.state)

UpsertPersonContext_Put(input) ==
  PersonValue(Len(input.name), Len(input.city), Len(input.state),
              input.name \o input.city \o input.state)

UpsertPersonContext_PutAtomic(input, value) ==
  [ok |-> TRUE,
   value |-> PersonValue(Len(input.name), Len(input.city), Len(input.state),
                         input.name \o input.city \o input.state)]

\* UpsertAuctionsContext: PutAtomic compares the lengths, and takes no lock
UpsertAuctionsContext_value_size(input) == SizeofU64 + Len(input) * SizeofU64

UpsertAuctionsContext_Put(input) == AuctionsValue(Len(input), input)

UpsertAuctionsContext_PutAtomic(input, value) ==
  IF value.length_ < Len(input)
    THEN [ok |-> FALSE, value |-> value]
    ELSE [ok |-> TRUE,
          value |-> [value EXCEPT !.length_ = Len(input),
                                  !.buffer = memcpy(value.buffer, input)]]

\* UpsertU64Context: plain stores in both Put and PutAtomic
UpsertU64Context_Put(input) == WordValue(input)

UpsertU64Context_PutAtomic(input, value) == [ok |-> TRUE, value |-> WordValue(input)]

\* U64PairValue: left_ and right_
U64PairValue(l, r) == [left_ |-> l, right_ |-> r]

\* UpsertU64PairContext: both words stored in Put and in PutAtomic
UpsertU64PairContext_Put(input) == U64PairValue(input.left, input.right)

UpsertU64PairContext_PutAtomic(input, value) ==
  [ok |-> TRUE, value |-> U64PairValue(input.left, input.right)]

\* UpsertContext of the second u64 interface: Put stores value_, PutAtomic stores atomic_value_
A64_Put(input) == WordValue(input)

A64_PutAtomic(input, value) == [ok |-> TRUE, value |-> WordValue(input)]

\* UpsertContext of the pointer interface: both copy the input to a new buffer
P64_Put(input) == P64Value(input, Len(input))

P64_PutAtomic(input, value) == [ok |-> TRUE, value |-> P64Value(input, Len(input))]

TestPutValue == 23

TestPutAtomicValue == 42

\* UpsertContext of the iterator test: the stored byte does not depend on any input
Test_Put == WordValue(TestPutValue)

Test_PutAtomic(value) == [ok |-> TRUE, value |-> WordValue(TestPutAtomicValue)]

value_size(ty, input) ==
  CASE ty = StoreBytes -> UpsertContext_value_size(input)
    [] ty = StorePerson -> UpsertPersonContext_value_size(input)
    [] ty = StoreAuctions -> UpsertAuctionsContext_value_size(input)
    [] ty = StoreP64 -> SizeofP64Value
    [] ty = StoreU8 -> 1
    [] OTHER -> 8

Put(ty, input) ==
  CASE ty = StoreBytes -> UpsertContext_Put(input)
    [] ty = StorePerson -> UpsertPersonContext_Put(input)
    [] ty = StoreAuctions -> UpsertAuctionsContext_Put(input)
    [] ty = StoreP64 -> P64_Put(input)
    [] ty = StoreU8 -> Test_Put
    [] ty = StoreU64 -> UpsertU64Context_Put(input)
    [] ty = StoreU64Pair -> UpsertU64PairContext_Put(input)
    [] OTHER -> A64_Put(input)

PutAtomic(ty, input, value) ==
  CASE ty = StoreBytes -> UpsertContext_PutAtomic(input, value)
    [] ty = StorePerson -> UpsertPersonContext_PutAtomic(input, value)
    [] ty = StoreAuctions -> UpsertAuctionsContext_PutAtomic(input, value)
    [] ty = StoreP64 -> P64_PutAtomic(input, value)
    [] ty = StoreU8 -> Test_PutAtomic(value)
    [] ty = StoreU64 -> UpsertU64Context_PutAtomic(input, value)
    [] ty = StoreU64Pair -> UpsertU64PairContext_PutAtomic(input, value)
    [] OTHER -> A64_PutAtomic(input, value)

-----------------------------------------------------------------------------
(* Read contexts: what the callback (or the context's output) receives *)

NoValue == "none"

ReadContext_Get(value) ==
  [length |-> value.length_, bytes |-> SubSeq(value.buffer, 1, value.length_)]

\* GetAtomic with no writer between its two loads of the lock: one pass of the loop
ReadContext_GetAtomic(value) ==
  [length |-> value.length_, bytes |-> SubSeq(value.buffer, 1, value.length_)]

ReadU64Context_Get(value) == value.value_

ReadU64Context_GetAtomic(value) == value.value_

\* ReadContext of the second u64 interface: both bodies are empty, nothing is handed out
A64_Get(value) == NoValue

A64_GetAtomic(value) == NoValue

\* ReadContext of the iterator test: Get fails the test, GetAtomic loads the byte
Test_Get(value) == "failed"

Test_GetAtomic(value) == value.value_

\* ReadContext of the pointer interface: cb_(target_, value.value_, value.size_, Ok)
P64_Get(value) == [length |-> value.size_, bytes |-> value.value_]

P64_GetAtomic(value) == [length |-> value.size_, bytes |-> value.value_]

\* the slots of a TenElementsValue
TenSlots == 10

\* TenElementsValue: length_ and tail_ (one byte each), then ten words
TenElementsValue(len, tl, slots) == [length_ |-> len, tail_ |-> tl, buffer |-> slots]

RECURSIVE Sum(_)
Sum(s) == IF s = <<>> THEN 0 ELSE Head(s) + Sum(Tail(s))

\* ReadTenElementsContext: sum / value.length_ over the first length_ slots; a
\* division by zero ends the process
ReadTenElementsContext_Get(value) ==
  IF value.length_ = 0 THEN "crash"
  ELSE Sum(SubSeq(value.buffer, 1, value.length_)) \div value.length_

ReadTenElementsContext_GetAtomic(value) ==
  IF value.length_ = 0 THEN "crash"
  ELSE Sum(SubSeq(value.buffer, 1, value.length_)) \div value.length_

Get(ty, value) ==
  CASE ty = StoreBytes -> ReadContext_Get(value)
    [] ty = StoreTenElements -> ReadTenElementsContext_Get(value)
    [] ty = StoreP64 -> P64_Get(value)
    [] ty = StoreU8 -> Test_Get(value)
    [] ty = StoreU64 -> ReadU64Context_Get(value)
    [] OTHER -> A64_Get(value)

GetAtomic(ty, value) ==
  CASE ty = StoreBytes -> ReadContext_GetAtomic(value)
    [] ty = StoreTenElements -> ReadTenElementsContext_GetAtomic(value)
    [] ty = StoreP64 -> P64_GetAtomic(value)
    [] ty = StoreU8 -> Test_GetAtomic(value)
    [] ty = StoreU64 -> ReadU64Context_GetAtomic(value)
    [] OTHER -> A64_GetAtomic(value)

\* the content of a value as a caller holding a pointer to it reads it
ValueOf(ty, value) ==
  IF ty = StoreBytes
    THEN [length |-> value.length_, bytes |-> SubSeq(value.buffer, 1, value.length_)]
    ELSE value.value_

-----------------------------------------------------------------------------
(* RMW contexts of the u64 stores *)

RmwU64Context_RmwInitial(incr) == WordValue(incr)

RmwU64Context_RmwCopy(incr, old_value) == WordValue(old_value.value_ + incr)

\* value.value_ += modification_ with no other thread between its load and its store
RmwU64Context_RmwAtomic(incr, value) == [ok |-> TRUE, value |-> WordValue(value.value_ + incr)]

A64_RmwInitial(incr) == WordValue(incr)

\* an RmwCopy that forgets the old value
RmwCopy_DropOld(incr, old_value) == WordValue(incr)

A64_RmwCopy(incr, old_value) == WordValue(old_value.value_ + incr)

\* atomic_value_.fetch_add(incr_): one indivisible step
A64_RmwAtomic(incr, value) == [ok |-> TRUE, value |-> WordValue(value.value_ + incr)]

RmwInitial(ty, incr) ==
  IF ty = StoreU64 THEN RmwU64Context_RmwInitial(incr) ELSE A64_RmwInitial(incr)

RmwCopy(ty, incr, old_value) ==
  IF ty = StoreU64 THEN RmwU64Context_RmwCopy(incr, old_value) ELSE A64_RmwCopy(incr, old_value)

RmwAtomic(ty, incr, value) ==
  IF ty = StoreU64 THEN RmwU64Context_RmwAtomic(incr, value) ELSE A64_RmwAtomic(incr, value)

-----------------------------------------------------------------------------
(* RMW contexts of the u64, u64-pair, ten-elements and auction-bids stores *)

\* uint64_t arithmetic, at the width of the model's words
Wrap(v) == v % (MaxU64 + 1)

RmwDecreaseU64Context_RmwInitial(m) == WordValue(Wrap(0 - m))

RmwDecreaseU64Context_RmwCopy(m, old_value) == WordValue(Wrap(old_value.value_ - m))

RmwDecreaseU64Context_RmwAtomic(m, value) ==
  [ok |-> TRUE, value |-> WordValue(Wrap(value.value_ - m))]

RmwU64PairContext_RmwInitial(m) == U64PairValue(m.left, m.right)

RmwU64PairContext_RmwCopy(m, old_value) ==
  U64PairValue(old_value.left_ + m.left, old_value.right_ + m.right)

RmwU64PairContext_RmwAtomic(m, value) ==
  [ok |-> TRUE, value |-> U64PairValue(value.left_ + m.left, value.right_ + m.right)]

\* value.buffer()[i] = m: a store outside the ten slots does not land in the value
StoreSlot(slots, i, m) == IF i + 1 \in DOMAIN slots THEN [slots EXCEPT ![i + 1] = m] ELSE slots

\* RmwInitial works on the memory the record was allocated in: it zeroes slots
\* 1..9, sets length_, and reads tail_ as that memory holds it
RmwTenElementsContext_RmwInitial(m, memory) ==
  LET zeroed == [i \in 1..TenSlots |-> IF i = 1 THEN memory.buffer[1] ELSE 0]
  IN TenElementsValue(1, (memory.tail_ + 1) % TenSlots, StoreSlot(zeroed, memory.tail_, m))

RmwTenElementsContext_RmwCopy(m, old_value) ==
  TenElementsValue(IF old_value.length_ < TenSlots THEN old_value.length_ + 1 ELSE TenSlots,
                   (old_value.tail_ + 1) % TenSlots,
                   StoreSlot(old_value.buffer, old_value.tail_, m))

\* an RmwAtomic that overwrites the newest slot and leaves tail_ where it is
RmwAtomic_KeepTail(m, value) ==
  [ok |-> TRUE,
   value |-> TenElementsValue(value.length_, value.tail_,
                              StoreSlot(value.buffer, (value.tail_ + TenSlots - 1) % TenSlots, m))]

RmwTenElementsContext_RmwAtomic(m, value) ==
  [ok |-> TRUE,
   value |-> TenElementsValue(IF value.length_ < TenSlots THEN value.length_ + 1 ELSE TenSlots,
                              (value.tail_ + 1) % TenSlots,
                              StoreSlot(value.buffer, value.tail_, m))]

\* AuctionBidsValue: an auction, bids_length_, then that many bids
AuctionBidsValue(a, n, bs) == [auction |-> a, bids_length_ |-> n, bids |-> bs]

RmwAuctionBidsAuctionContext_RmwInitial(m, memory) == AuctionBidsValue(m, 0, <<>>)

RmwAuctionBidsAuctionContext_RmwCopy(m, old_value) ==
  AuctionBidsValue(m, old_value.bids_length_, old_value.bids)

RmwAuctionBidsAuctionContext_RmwAtomic(m, value) ==
  [ok |-> TRUE, value |-> [value EXCEPT !.auction = m]]

\* RmwInitial of a bid leaves the auction as the record's memory holds it
RmwAuctionBidsBidContext_RmwInitial(m, memory) == AuctionBidsValue(memory.auction, 1, <<m>>)

RmwAuctionBidsBidContext_RmwCopy(m, old_value) ==
  AuctionBidsValue(old_value.auction, old_value.bids_length_ + 1, Append(old_value.bids, m))

RmwAuctionBidsBidContext_RmwAtomic(m, value) == [ok |-> FALSE, value |-> value]

\* the RMW contexts, by the name of their class
CtxInitial(ctx, m, memory) ==
  CASE ctx = "RmwU64Context" -> RmwU64Context_RmwInitial(m)
    [] ctx = "RmwDecreaseU64Context" -> RmwDecreaseU64Context_RmwInitial(m)
    [] ctx = "RmwU64PairContext" -> RmwU64PairContext_RmwInitial(m)
    [] ctx = "RmwTenElementsContext" -> RmwTenElementsContext_RmwInitial(m, memory)
    [] ctx = "RmwAuctionBidsAuctionContext" -> RmwAuctionBidsAuctionContext_RmwInitial(m, memory)
    [] OTHER -> RmwAuctionBidsBidContext_RmwInitial(m, memory)

CtxCopy(ctx, m, old_value) ==
  CASE ctx = "RmwU64Context" -> RmwU64Context_RmwCopy(m, old_value)
    [] ctx = "RmwDecreaseU64Context" -> RmwDecreaseU64Context_RmwCopy(m, old_value)
    [] ctx = "RmwU64PairContext" -> RmwU64PairContext_RmwCopy(m, old_value)
    [] ctx = "RmwTenElementsContext" -> RmwTenElementsContext_RmwCopy(m, old_value)
    [] ctx = "RmwAuctionBidsAuctionContext" -> RmwAuctionBidsAuctionContext_RmwCopy(m, old_value)
    [] OTHER -> RmwAuctionBidsBidContext_RmwCopy(m, old_value)

CtxAtomic(ctx, m, value) ==
  CASE ctx = "RmwU64Context" -> RmwU64Context_RmwAtomic(m, value)
    [] ctx = "RmwDecreaseU64Context" -> RmwDecreaseU64Context_RmwAtomic(m, value)
    [] ctx = "RmwU64PairContext" -> RmwU64PairContext_RmwAtomic(m, value)
    [] ctx = "RmwTenElementsContext" -> RmwTenElementsContext_RmwAtomic(m, value)
    [] ctx = "RmwAuctionBidsAuctionContext" -> RmwAuctionBidsAuctionContext_RmwAtomic(m, value)
    [] OTHER -> RmwAuctionBidsBidContext_RmwAtomic(m, value)

-----------------------------------------------------------------------------
(* Record layout and the hybrid log *)

NumTags == 1

Tags == 0..(NumTags - 1)

\* the tag of a key's hash: which index entry (and so which record chain) the key uses
Tag(k) == k % NumTags

HeaderBytes == 8

kBeginAddress == 64

key_size(ty, k) ==
  CASE ty = StoreBytes -> SizeofKey + (IF k = 0 THEN 0 ELSE 1)
    [] ty = StoreU8 -> 2
    [] OTHER -> 8

SizeofU64PairValue == 16

\* the IAsyncContext base (a virtual table pointer and a flag), length_ and tail_
SizeofTenElementsValue == 16

\* an auction_t of five words, then bids_length_
SizeofAuctionBidsValue == 48

\* a bid_t of three words
SizeofBid == 24

\* Value::size(): the byte-buffer value reports its size_ field, the others sizeof
value_size_of(ty, value) ==
  CASE ty = StoreBytes -> value.size_
    [] ty = StorePerson ->
         SizeofPersonValue + value.name_length_ + value.city_length_ + value.state_length_
    [] ty = StoreAuctions -> value.length_ * SizeofU64
    [] ty = StoreP64 -> SizeofP64Value
    [] ty = StoreU8 -> 1
    [] ty = StoreU64Pair -> SizeofU64PairValue
    [] ty = StoreTenElements -> SizeofTenElementsValue + TenSlots * SizeofU64
    [] ty = StoreAuctionBids -> SizeofAuctionBidsValue + value.bids_length_ * SizeofBid
    [] OTHER -> 8

ZeroValue(ty) ==
  CASE ty = StoreBytes -> BytesValue(0, 0, 0, <<>>)
    [] ty = StorePerson -> PersonValue(0, 0, 0, <<>>)
    [] ty = StoreAuctions -> AuctionsValue(0, <<>>)
    [] ty = StoreP64 -> P64Value(<<>>, 0)
    [] ty = StoreU64Pair -> U64PairValue(0, 0)
    [] ty = StoreTenElements -> TenElementsValue(0, 0, [i \in 1..TenSlots |-> 0])
    [] ty = StoreAuctionBids -> AuctionBidsValue(0, 0, <<>>)
    [] OTHER -> WordValue(0)

Record(inv, tomb, prev, k, value) ==
  [invalid |-> inv, tombstone |-> tomb, previous_address |-> prev, key |-> k, value |-> value]

\* log memory no record was written to reads as zero bytes
ZeroRecord(ty) == Record(FALSE, FALSE, 0, 0, ZeroValue(ty))

\* hlog->Get(address)
HlogGet(ty, lg, address) == IF address \in DOMAIN lg THEN lg[address] ELSE ZeroRecord(ty)

\* Record::size(): header + key (aligned to 8) + value (aligned to 8)
record_size(ty, rec) ==
  HeaderBytes + Pad8(key_size(ty, rec.key)) + Pad8(value_size_of(ty, rec.value))

\* the bytes the engine allocates for a record: the header, the key, and the
\* value_size() its context asked for, which for an AuctionsValue counts the
\* length word that AuctionsValue::size() leaves out
allocated_size(ty, rec) ==
  HeaderBytes + Pad8(key_size(ty, rec.key))
    + Pad8(IF ty = StoreAuctions THEN SizeofU64 + rec.value.length_ * SizeofU64
           ELSE value_size_of(ty, rec.value))

\* allocate(size): an allocation that would cross the page boundary restarts on the next page
Allocate(tail, size) ==
  LET offset == tail % PageSize
      next_page == ((tail \div PageSize) + 1) * PageSize
  IN IF offset + size > PageSize
       THEN [address |-> next_page, tail |-> next_page + size]
       ELSE [address |-> tail, tail |-> tail + size]

\* follow previous_address from the chain head until the key matches
RECURSIVE TraceBackForKeyMatch(_, _, _, _)
TraceBackForKeyMatch(lg, address, k, begin) ==
  IF address = 0 \/ address < begin \/ address \notin DOMAIN lg THEN 0
  ELSE IF lg[address].key = k THEN address
  ELSE TraceBackForKeyMatch(lg, lg[address].previous_address, k, begin)

\* the engine state an operation works on
Engine == [log |-> log, index |-> index, tail |-> tail_address,
           read_only |-> read_only_address, safe_read_only |-> safe_read_only_address,
           head |-> head_address, begin |-> begin_address]

FindEntry(st, k) == st.index[Tag(k)]

Lookup(st, k) == TraceBackForKeyMatch(st.log, FindEntry(st, k), k, st.begin)

\* append a record for key k whose previous_address is the chain head, and
\* install it in the index entry
CreateRecord(st, ty, k, value, tomb) ==
  LET rec == Record(FALSE, tomb, FindEntry(st, k), k, value)
      al == Allocate(st.tail, allocated_size(ty, rec))
  IN [st EXCEPT !.log = st.log @@ (al.address :> rec),
                !.tail = al.tail,
                !.index = [st.index EXCEPT ![Tag(k)] = al.address]]

NewAddress(st, ty, k, value) ==
  Allocate(st.tail, allocated_size(ty, Record(FALSE, FALSE, 0, k, value))).address

Result(st, status, path, addr, output, appended) ==
  [st |-> st, status |-> status, path |-> path, addr |-> addr, out |-> output,
   appended |-> appended]

-----------------------------------------------------------------------------
(* The operations, run by one session with no other session active *)

\* a rule that lets every resident record be updated in place
Mutable_Resident(st, a) == a >= st.head

\* the mutability rule: a record may be updated in place iff it is at or above read_only
Mutable(st, a) == a >= st.read_only

\* an Upsert that takes the in-place path on a tombstone as well
Upsert_OnTombstone(st, ty, k, input) ==
  LET a == Lookup(st, k) IN
  IF a = 0
    THEN Result(CreateRecord(st, ty, k, Put(ty, input), FALSE), Ok, "put",
                NewAddress(st, ty, k, Put(ty, input)), NoValue, TRUE)
  ELSE IF a >= st.read_only /\ PutAtomic(ty, input, st.log[a].value).ok
    THEN Result([st EXCEPT !.log[a].value = PutAtomic(ty, input, st.log[a].value).value],
                Ok, "putatomic", a, NoValue, FALSE)
  ELSE Result(CreateRecord(st, ty, k, Put(ty, input), FALSE), Ok, "append",
              NewAddress(st, ty, k, Put(ty, input)), NoValue, TRUE)

Upsert(st, ty, k, input) ==
  LET a == Lookup(st, k) IN
  IF a = 0
    THEN Result(CreateRecord(st, ty, k, Put(ty, input), FALSE), Ok, "put",
                NewAddress(st, ty, k, Put(ty, input)), NoValue, TRUE)
  ELSE IF a < st.head
    THEN Result(st, Pending, "pending", a, NoValue, FALSE)
  ELSE IF Mutable(st, a) /\ ~st.log[a].tombstone
    THEN LET r == PutAtomic(ty, input, st.log[a].value)
             touched == [st EXCEPT !.log[a].value = r.value]
         IN IF r.ok
              THEN Result(touched, Ok, "putatomic", a, NoValue, FALSE)
              ELSE Result(CreateRecord(touched, ty, k, Put(ty, input), FALSE), Ok, "append",
                          NewAddress(st, ty, k, Put(ty, input)), NoValue, TRUE)
  ELSE Result(CreateRecord(st, ty, k, Put(ty, input), FALSE), Ok, "append",
              NewAddress(st, ty, k, Put(ty, input)), NoValue, TRUE)

\* a Read that takes read_only for the boundary between Get and GetAtomic
Read_ByReadOnly(st, ty, k) ==
  LET a == Lookup(st, k) IN
  IF a = 0
    THEN Result(st, NotFound, "miss", 0, NoValue, FALSE)
  ELSE IF a < st.head
    THEN Result(st, Pending, "pending", a, NoValue, FALSE)
  ELSE IF st.log[a].tombstone
    THEN Result(st, NotFound, "tombstone", a, NoValue, FALSE)
  ELSE IF a >= st.read_only
    THEN Result(st, Ok, "getatomic", a, GetAtomic(ty, st.log[a].value), FALSE)
  ELSE Result(st, Ok, "get", a, Get(ty, st.log[a].value), FALSE)

Read(st, ty, k) ==
  LET a == Lookup(st, k) IN
  IF a = 0
    THEN Result(st, NotFound, "miss", 0, NoValue, FALSE)
  ELSE IF a < st.head
    THEN Result(st, Pending, "pending", a, NoValue, FALSE)
  ELSE IF st.log[a].tombstone
    THEN Result(st, NotFound, "tombstone", a, NoValue, FALSE)
  ELSE IF a >= st.safe_read_only
    THEN Result(st, Ok, "getatomic", a, GetAtomic(ty, st.log[a].value), FALSE)
  ELSE Result(st, Ok, "get", a, Get(ty, st.log[a].value), FALSE)

Rmw(st, ty, k, incr) ==
  LET a == Lookup(st, k) IN
  IF a = 0
    THEN Result(CreateRecord(st, ty, k, RmwInitial(ty, incr), FALSE), Ok, "initial",
                NewAddress(st, ty, k, RmwInitial(ty, incr)), NoValue, TRUE)
  ELSE IF a < st.head
    THEN Result(st, Pending, "pending", a, NoValue, FALSE)
  ELSE IF st.log[a].tombstone
    THEN Result(CreateRecord(st, ty, k, RmwInitial(ty, incr), FALSE), Ok, "initial",
                NewAddress(st, ty, k, RmwInitial(ty, incr)), NoValue, TRUE)
  ELSE IF Mutable(st, a) /\ RmwAtomic(ty, incr, st.log[a].value).ok
    THEN Result([st EXCEPT !.log[a].value = RmwAtomic(ty, incr, st.log[a].value).value],
                Ok, "atomic", a, NoValue, FALSE)
  ELSE Result(CreateRecord(st, ty, k, RmwCopy(ty, incr, st.log[a].value), FALSE), Ok, "copy",
              NewAddress(st, ty, k, RmwCopy(ty, incr, st.log[a].value)), NoValue, TRUE)

Delete(st, ty, k) ==
  Result(CreateRecord(st, ty, k, ZeroValue(ty), TRUE), Ok, "tombstone",
         NewAddress(st, ty, k, ZeroValue(ty)), NoValue, TRUE)

\* the C shims return the engine's status as a uint8_t
faster_upsert(st, ty, k, input) == Upsert(st, ty, k, input)

faster_read(st, ty, k) == Read(st, ty, k)

faster_rmw(st, ty, k, incr) == Rmw(st, ty, k, incr)

\* a Delete that reports NotFound for a key with no record
Delete_AbsentFails(st, ty, k) ==
  IF Lookup(st, k) = 0
    THEN Result(st, NotFound, "miss", 0, NoValue, FALSE)
    ELSE Delete(st, ty, k)

faster_delete(st, ty, k) == Delete(st, ty, k)

-----------------------------------------------------------------------------
(* The in-memory scan iterator *)

NoIterator == [pc |-> "none", current_address |-> 0, end_address |-> 0,
               next_address |-> 0, ret |-> "none"]

\* FasterIterator(hlog, begin_address, end_address)
FasterIterator(begin_scan, end_scan) ==
  [pc |-> "idle", current_address |-> 0, end_address |-> end_scan,
   next_address |-> begin_scan, ret |-> "none"]

\* an address inside a record but not at its start: the bytes there are the
\* middle of a key or value, and reading them as a record header is undefined
Misaligned(ty, lg, address) ==
  \E a \in DOMAIN lg : a < address /\ address < a + record_size(ty, lg[a])

\* a GetNext that does not compare the cursor with head_address
GetNext_NoHeadCheck(it, o, ty, lg, begin, head) ==
  LET cur == it.next_address
      at == [it EXCEPT !.current_address = cur]
      rec == HlogGet(ty, lg, cur)
  IN IF cur >= it.end_address
       THEN [iter |-> [at EXCEPT !.ret = "false"], out |-> o]
     ELSE IF cur < begin
       THEN [iter |-> [at EXCEPT !.ret = "throw"], out |-> o]
     ELSE IF Misaligned(ty, lg, cur)
       THEN [iter |-> [at EXCEPT !.ret = "misaligned"], out |-> o]
     ELSE IF rec.invalid
       THEN [iter |-> [at EXCEPT !.ret = "hang"], out |-> o]
     ELSE [iter |-> [at EXCEPT !.ret = "true",
                               !.next_address = it.next_address + record_size(ty, rec)],
           out |-> cur]

\* One call of GetNext. A record whose header is invalid makes the loop
\* `continue` with current_address_ unchanged: the same iteration repeats for
\* ever, which the model records as ret = "hang". A cursor inside a record ends
\* the scan with ret = "misaligned": what the code then reads is arbitrary.
GetNext(it, o, ty, lg, begin, head) ==
  LET cur == it.next_address
      at == [it EXCEPT !.current_address = cur]
      rec == HlogGet(ty, lg, cur)
  IN IF cur >= it.end_address
       THEN [iter |-> [at EXCEPT !.ret = "false"], out |-> o]
     ELSE IF cur < begin
       THEN [iter |-> [at EXCEPT !.ret = "throw"], out |-> o]
     ELSE IF cur < head
       THEN [iter |-> [at EXCEPT !.ret = "throw"], out |-> o]
     ELSE IF Misaligned(ty, lg, cur)
       THEN [iter |-> [at EXCEPT !.ret = "misaligned"], out |-> o]
     ELSE IF rec.invalid
       THEN [iter |-> [at EXCEPT !.ret = "hang"], out |-> o]
     ELSE [iter |-> [at EXCEPT !.ret = "true",
                               !.next_address = it.next_address + record_size(ty, rec)],
           out |-> cur]

-----------------------------------------------------------------------------
(* One session, one operation at a time *)

Inputs(ty) ==
  CASE ty = StoreBytes -> {<<2>>, <<1, 1>>}
    [] ty = StorePerson -> {[name |-> n, city |-> c, state |-> <<>>] :
                              n \in {<<1>>, <<2, 2>>}, c \in {<<>>, <<3>>}}
    [] ty = StoreAuctions -> {<<>>, <<1>>, <<2, 2>>}
    [] ty = StoreP64 -> {<<1>>}
    [] ty = StoreU8 -> {0}
    [] ty = StoreU64Pair -> {[left |-> 1, right |-> 2], [left |-> 2, right |-> 1]}
    [] OTHER -> 1..2

Incrs == 1..2

\* the value an Upsert was asked to store, as a Read reports it
InputValue(ty, input) ==
  CASE ty = StoreBytes -> [length |-> Len(input), bytes |-> input]
    [] ty = StorePerson -> input
    [] ty = StoreAuctions -> input
    [] ty = StoreP64 -> [length |-> Len(input), bytes |-> input]
    [] ty = StoreU8 -> TestPutValue
    [] OTHER -> input

NoWrite == [op |-> "none", val |-> NoValue, before |-> "none"]

NoResult == [op |-> "none", key |-> 0, status |-> Ok, out |-> NoValue, path |-> "none",
             addr |-> 0, before |-> "none"]

InitHist == [lastw |-> [k \in ScanKeys |-> NoWrite], order |-> <<>>, plain |-> TRUE,
             snap |-> <<>>, yielded |-> NoValue, count |-> 0]

InitEngine ==
  /\ log = <<>>
  /\ index = [t \in Tags |-> 0]
  /\ tail_address = kBeginAddress
  /\ read_only_address = kBeginAddress
  /\ safe_read_only_address = kBeginAddress
  /\ head_address = kBeginAddress
  /\ begin_address = kBeginAddress

InitKv(types) ==
  /\ stype \in types
  /\ InitEngine
  /\ iter = NoIterator
  /\ out = 0
  /\ sess = <<>>
  /\ res = NoResult
  /\ hist = InitHist

HasRoom == Cardinality(DOMAIN log) < MaxRecords

\* an Upsert of a key not written before, issued before any scan exists
Fresh(op, k) == op = "upsert" /\ hist.lastw[k].op = "none" /\ iter.pc = "none"

\* the engine state after an operation, and what it returned
Finish(r, op, k, w) ==
  /\ r.appended => HasRoom
  /\ log' = r.st.log
  /\ index' = r.st.index
  /\ tail_address' = r.st.tail
  /\ res' = [op |-> op, key |-> k, status |-> r.status, out |-> r.out, path |-> r.path,
             addr |-> r.addr, before |-> hist.lastw[k].op]
  /\ hist' = [hist EXCEPT
                !.lastw[k] = IF w.op = "none" \/ r.status # Ok THEN @
                             ELSE [w EXCEPT !.before = hist.lastw[k].op],
                !.order = IF hist.plain /\ Fresh(op, k)
                            THEN Append(@, [key |-> k, value |-> w.val]) ELSE <<>>,
                !.plain = @ /\ Fresh(op, k)]
  /\ UNCHANGED <<stype, read_only_address, safe_read_only_address, head_address,
                 begin_address, iter, out, sess>>

Written(op, val) == [op |-> op, val |-> val, before |-> "none"]

\* the generation number is 62 bits wide in the code and never wraps in practice:
\* an in-place write is only issued while the record's generation can still grow
GenRoom(k) ==
  LET a == Lookup(Engine, k) IN
  (stype = StoreBytes /\ a # 0 /\ a >= read_only_address /\ ~log[a].tombstone)
    => gen_number(log[a].value.gen_lock) < MaxInPlace

KvUpsert(k, input) ==
  /\ iter.ret \notin {"hang"}
  /\ GenRoom(k)
  /\ Finish(faster_upsert(Engine, stype, k, input), "upsert", k,
            Written("upsert", InputValue(stype, input)))

KvRead(k) ==
  /\ iter.ret \notin {"hang"}
  /\ Finish(faster_read(Engine, stype, k), "read", k, NoWrite)

\* what the sequence of RMWs is to leave: the increment on a key with no value, else the sum
RmwExpected(k, incr) ==
  IF hist.lastw[k].op \in {"upsert", "rmw"} THEN hist.lastw[k].val + incr ELSE incr

KvRmw(k, incr) ==
  /\ iter.ret \notin {"hang"}
  /\ stype \in {StoreU64, StoreA64}
  /\ RmwExpected(k, incr) <= MaxU64
  /\ Finish(faster_rmw(Engine, stype, k, incr), "rmw", k,
            Written("rmw", RmwExpected(k, incr)))

KvDelete(k) ==
  /\ iter.ret \notin {"hang"}
  /\ Finish(faster_delete(Engine, stype, k), "delete", k, Written("delete", NoValue))

\* read_only advances to a record boundary; safe_read_only follows it
ShiftReadOnly ==
  /\ \E a \in DOMAIN log \cup {tail_address} :
       /\ a > read_only_address
       /\ read_only_address' = a
  /\ UNCHANGED <<stype, log, index, tail_address, safe_read_only_address, head_address,
                 begin_address, iter, out, sess, res, hist>>

ShiftSafeReadOnly ==
  /\ safe_read_only_address < read_only_address
  /\ safe_read_only_address' = read_only_address
  /\ UNCHANGED <<stype, log, index, tail_address, read_only_address, head_address,
                 begin_address, iter, out, sess, res, hist>>

\* what a caller sees through the pointers of the iterator record
Deref(ty, lg, address) ==
  [key |-> HlogGet(ty, lg, address).key, value |-> ValueOf(ty, HlogGet(ty, lg, address).value)]

ScanInMemory ==
  /\ iter.pc = "none"
  /\ iter' = FasterIterator(head_address, tail_address)
  /\ hist' = [hist EXCEPT !.snap = log]
  /\ UNCHANGED <<stype, log, index, anchors, out, sess, res>>

KvGetNext ==
  /\ iter.pc = "idle"
  /\ iter.ret \notin {"hang", "throw", "false", "misaligned"}
  /\ LET g == GetNext(iter, out, stype, log, begin_address, head_address) IN
       /\ iter' = g.iter
       /\ out' = g.out
       /\ hist' = [hist EXCEPT !.yielded = IF g.iter.ret = "true"
                                             THEN Deref(stype, log, g.out) ELSE NoValue,
                                !.count = IF g.iter.ret = "true" THEN @ + 1 ELSE @]
  /\ UNCHANGED <<stype, log, index, anchors, sess, res>>

NextPoint ==
  \/ \E k \in Keys : \E input \in Inputs(stype) : KvUpsert(k, input)
  \/ \E k \in Keys : KvRead(k)
  \/ \E k \in Keys : \E incr \in Incrs : KvRmw(k, incr)
  \/ \E k \in Keys : KvDelete(k)
  \/ ShiftReadOnly
  \/ ShiftSafeReadOnly

InitPoint == InitKv({StoreBytes, StoreU64, StoreA64})

SpecPoint == InitPoint /\ [][NextPoint]_vars

\* a session that upserts values of different sizes on the stores whose values vary in size
NextGrow ==
  \/ \E k \in Keys : \E input \in Inputs(stype) : KvUpsert(k, input)
  \/ ShiftReadOnly

InitGrow == InitKv({StoreBytes, StorePerson, StoreAuctions, StoreU64})

SpecGrow == InitGrow /\ [][NextGrow]_vars

\* a session that fills the log, then scans it, possibly writing while it scans
NextScan ==
  \/ \E k \in ScanKeys : \E input \in Inputs(stype) : KvUpsert(k, input)
  \/ \E k \in ScanKeys : KvDelete(k)
  \/ ShiftReadOnly
  \/ ScanInMemory
  \/ KvGetNext

InitScan == InitKv({StoreU8, StoreA64})

SpecScan == InitScan /\ [][NextScan]_vars

-----------------------------------------------------------------------------
(* The scan through the C interface: faster_iterator_get_next and its u64 and
   u64-pair variants, each on the record holder its record_init returned *)

\* FasterIteratorRecord(): key_ and value_ are NULL, the holder names no record
FasterIteratorRecord == 0

NoIteratorResult == [called |-> FALSE, status |-> FALSE, reads |-> FALSE,
                     crash |-> FALSE, key |-> NoValue, value |-> NoValue]

\* what the shim returns: the status, whether it read the holder's key and
\* value, and what it read; reading through a holder that names no record
\* dereferences NULL
IteratorResult(status, reads, holder, key, value) ==
  [called |-> TRUE, status |-> status, reads |-> reads,
   crash |-> reads /\ holder = FasterIteratorRecord,
   key |-> IF reads /\ holder # FasterIteratorRecord THEN key ELSE NoValue,
   value |-> IF reads /\ holder # FasterIteratorRecord THEN value ELSE NoValue]

\* res->status = status, then key()->clone(), key()->length(), value()->clone()
\* and value()->length() whatever the status
faster_iterator_get_next(it, o, lg, begin, head) ==
  LET g == GetNext(it, o, StoreBytes, lg, begin, head)
      rec == HlogGet(StoreBytes, lg, g.out)
  IN [iter |-> g.iter, out |-> g.out,
      res |-> IteratorResult(g.iter.ret = "true", TRUE, g.out, rec.key,
                             ValueOf(StoreBytes, rec.value))]

\* res->status = status, then key()->key() and value()->value() whatever the status
faster_iterator_get_next_u64(it, o, lg, begin, head) ==
  LET g == GetNext(it, o, StoreU64, lg, begin, head)
      rec == HlogGet(StoreU64, lg, g.out)
  IN [iter |-> g.iter, out |-> g.out,
      res |-> IteratorResult(g.iter.ret = "true", TRUE, g.out, rec.key, rec.value.value_)]

\* res->status = status, and the key and both words only `if (status)`
faster_iterator_get_next_u64_pair(it, o, lg, begin, head) ==
  LET g == GetNext(it, o, StoreU64Pair, lg, begin, head)
      rec == HlogGet(StoreU64Pair, lg, g.out)
  IN [iter |-> g.iter, out |-> g.out,
      res |-> IteratorResult(g.iter.ret = "true", g.iter.ret = "true", g.out, rec.key,
                             rec.value)]

InitShim ==
  /\ stype \in {StoreBytes, StoreU64, StoreU64Pair}
  /\ InitEngine
  /\ iter = NoIterator
  /\ out = FasterIteratorRecord
  /\ sess = NoIteratorResult
  /\ res = NoResult
  /\ hist = InitHist

\* one call of the get_next shim of the store's type; an exception GetNext
\* throws leaves the shim before it builds a result
S_GetNext ==
  /\ iter.pc = "idle"
  /\ iter.ret \notin {"hang", "throw", "misaligned"}
  /\ ~sess.crash
  /\ LET r == CASE stype = StoreBytes ->
                   faster_iterator_get_next(iter, out, log, begin_address, head_address)
                [] stype = StoreU64 ->
                   faster_iterator_get_next_u64(iter, out, log, begin_address, head_address)
                [] OTHER ->
                   faster_iterator_get_next_u64_pair(iter, out, log, begin_address,
                                                     head_address)
     IN /\ iter' = r.iter
        /\ out' = r.out
        /\ sess' = IF r.iter.ret \in {"true", "false"} THEN r.res ELSE NoIteratorResult
  /\ UNCHANGED <<stype, log, index, anchors, res, hist>>

NextShim ==
  \/ \E k \in Keys : \E input \in Inputs(stype) : KvUpsert(k, input)
  \/ \E k \in Keys : KvDelete(k)
  \/ ShiftReadOnly
  \/ ScanInMemory
  \/ S_GetNext

SpecShim == InitShim /\ [][NextShim]_vars

-----------------------------------------------------------------------------
(* Threads on one mutable record: PutAtomic and GetAtomic statement by statement *)

Writers == {"w1", "w2"}

Reader == "r"

\* PutAtomic calls started in one run; fewer than the generations the lock word can count
MaxWrites == 2

\* the record all threads work on, and the key it belongs to
TheAddress == kBeginAddress

TheKey == CHOOSE k \in Keys : \A j \in Keys : k <= j

LockInputs == {<<2>>, <<2, 2>>, <<2, 2, 2>>}

InitialInput == <<1, 1>>

\* the modifications the RMWs bring, and what the caller's rmw_callback makes of
\* a value and a modification: the value with the modification appended
LockModifications == {<<3>>}

rmw_callback(current, modification) == current \o modification

IdleWriter == [pc |-> "idle", op |-> "put", input |-> <<>>, expected |-> 0, i |-> 0,
               ret |-> "none"]

IdleReader == [pc |-> "idle", before |-> 0, alloc |-> 0, n |-> 0, i |-> 0, buffer |-> <<>>,
               length |-> 0]

TheValue == log[TheAddress].value

SetValue(value) == log' = [log EXCEPT ![TheAddress].value = value]

InitLock ==
  /\ stype = StoreBytes
  /\ LET rec == Record(FALSE, FALSE, 0, TheKey, UpsertContext_Put(InitialInput))
     IN /\ log = (TheAddress :> rec)
        /\ index = [t \in Tags |-> TheAddress]
        /\ tail_address = TheAddress + record_size(StoreBytes, rec)
  /\ read_only_address = kBeginAddress
  /\ safe_read_only_address = kBeginAddress
  /\ head_address = kBeginAddress
  /\ begin_address = kBeginAddress
  /\ iter = NoIterator
  /\ out = 0
  /\ sess = [t \in Writers \cup {Reader} |-> IF t = Reader THEN IdleReader ELSE IdleWriter]
  /\ res = [NoResult EXCEPT !.out = InputValue(StoreBytes, <<>>)]
  /\ hist = [versions |-> {InputValue(StoreBytes, InitialInput)}, writes |-> 0]

LockFrame == UNCHANGED <<stype, index, anchors, iter, out>>

\* a session enters PutAtomic, or RmwAtomic, on the record
W_Call(t, op, input) ==
  /\ sess[t].pc = "idle"
  /\ hist.writes < MaxWrites
  /\ sess' = [sess EXCEPT ![t] = [IdleWriter EXCEPT !.pc = "try_load", !.op = op,
                                                    !.input = input]]
  /\ hist' = [hist EXCEPT !.writes = @ + 1]
  /\ UNCHANGED <<log, res>>
  /\ LockFrame

\* try_lock: GenLock expected{ control_.load() } with locked and replaced cleared
W_TryLoad(t) ==
  /\ sess[t].pc = "try_load"
  /\ sess' = [sess EXCEPT ![t].pc = "try_cas",
                          ![t].expected = try_lock_expected(TheValue.gen_lock)]
  /\ UNCHANGED <<log, res, hist>>
  /\ LockFrame

\* try_lock: the compare-exchange, and the loop of PutAtomic around it
W_TryCas(t) ==
  /\ sess[t].pc = "try_cas"
  /\ IF TheValue.gen_lock = sess[t].expected
       THEN /\ SetValue([TheValue EXCEPT !.gen_lock = try_lock_desired(sess[t].expected)])
            /\ sess' = [sess EXCEPT ![t].pc = "check_size"]
       ELSE /\ UNCHANGED log
            /\ sess' = [sess EXCEPT ![t].expected = TheValue.gen_lock,
                                    ![t].pc = IF replaced(TheValue.gen_lock) = 1
                                                THEN "idle" ELSE "try_load",
                                    ![t].ret = IF replaced(TheValue.gen_lock) = 1
                                                 THEN "false" ELSE @]
  /\ UNCHANGED <<res, hist>>
  /\ LockFrame

\* the bytes the call is to leave in the value: the input of a PutAtomic, what
\* cb_ makes of the value and the modification in an RmwAtomic
NewBytes(t) ==
  IF sess[t].op = "put" THEN sess[t].input
  ELSE rmw_callback(SubSeq(TheValue.buffer, 1, TheValue.length_), sess[t].input)

\* if(value.size_ < sizeof(Value) + length_) { unlock(true); return false; }
\* RmwAtomic computes new_length_ with cb_ first, and calls cb_ on the buffer
\* before it stores the length
W_CheckSize(t) ==
  /\ sess[t].pc = "check_size"
  /\ IF TheValue.size_ < SizeofValue + Len(NewBytes(t))
       THEN /\ SetValue([TheValue EXCEPT !.gen_lock = unlock(@, TRUE)])
            /\ sess' = [sess EXCEPT ![t].pc = "idle", ![t].ret = "false"]
            /\ UNCHANGED hist
       ELSE /\ UNCHANGED log
            /\ sess' = [sess EXCEPT ![t].pc = IF sess[t].op = "put" THEN "write_length"
                                                                    ELSE "memcpy",
                                    ![t].i = 1,
                                    ![t].input = NewBytes(t)]
            /\ hist' = [hist EXCEPT !.versions =
                          IF sess[t].op = "put" THEN @
                          ELSE @ \cup {InputValue(StoreBytes, NewBytes(t))}]
  /\ UNCHANGED res
  /\ LockFrame

\* value.length_ = length_
W_WriteLength(t) ==
  /\ sess[t].pc = "write_length"
  /\ SetValue([TheValue EXCEPT !.length_ = Len(sess[t].input)])
  /\ sess' = [sess EXCEPT ![t].pc = IF sess[t].op = "put" THEN "memcpy" ELSE "unlock",
                          ![t].i = 1]
  /\ hist' = [hist EXCEPT !.versions = @ \cup {InputValue(StoreBytes, sess[t].input)}]
  /\ UNCHANGED res
  /\ LockFrame

\* std::memcpy(value.buffer(), input_, length_), one byte at a time
W_Memcpy(t) ==
  /\ sess[t].pc = "memcpy"
  /\ sess[t].i <= Len(sess[t].input)
  /\ SetValue([TheValue EXCEPT !.buffer[sess[t].i] = sess[t].input[sess[t].i]])
  /\ sess' = [sess EXCEPT ![t].i = @ + 1,
                          ![t].pc = IF sess[t].i < Len(sess[t].input) THEN @
                                    ELSE IF sess[t].op = "put" THEN "unlock"
                                    ELSE "write_length"]
  /\ UNCHANGED <<res, hist>>
  /\ LockFrame

\* value.gen_lock_.unlock(false); return true
W_Unlock(t) ==
  /\ sess[t].pc = "unlock"
  /\ SetValue([TheValue EXCEPT !.gen_lock = unlock(@, FALSE)])
  /\ sess' = [sess EXCEPT ![t].pc = "idle", ![t].ret = "true"]
  /\ UNCHANGED <<res, hist>>
  /\ LockFrame

\* a Read reaches GetAtomic on the record
R_Call ==
  /\ sess[Reader].pc = "idle"
  /\ sess' = [sess EXCEPT ![Reader] = [IdleReader EXCEPT !.pc = "before"]]
  /\ UNCHANGED <<log, res, hist>>
  /\ LockFrame

\* before = value.gen_lock_.load()
R_Before ==
  /\ sess[Reader].pc = "before"
  /\ sess' = [sess EXCEPT ![Reader].pc = "realloc", ![Reader].before = TheValue.gen_lock]
  /\ UNCHANGED <<log, res, hist>>
  /\ LockFrame

\* buffer = realloc(buffer, value.length_)
R_Realloc ==
  /\ sess[Reader].pc = "realloc"
  /\ sess' = [sess EXCEPT ![Reader].pc = "count", ![Reader].alloc = TheValue.length_]
  /\ UNCHANGED <<log, res, hist>>
  /\ LockFrame

\* memcpy(buffer, value.buffer(), value.length_): the count is read first
R_Count ==
  /\ sess[Reader].pc = "count"
  /\ sess' = [sess EXCEPT ![Reader].n = TheValue.length_, ![Reader].i = 1,
                          ![Reader].buffer = <<>>,
                          ![Reader].pc = IF TheValue.length_ = 0 THEN "length" ELSE "memcpy"]
  /\ UNCHANGED <<log, res, hist>>
  /\ LockFrame

\* ... then the bytes are copied one at a time
R_Memcpy ==
  /\ sess[Reader].pc = "memcpy"
  /\ sess' = [sess EXCEPT ![Reader].buffer = Append(@, TheValue.buffer[sess[Reader].i]),
                          ![Reader].i = @ + 1,
                          ![Reader].pc = IF sess[Reader].i = sess[Reader].n THEN "length" ELSE @]
  /\ UNCHANGED <<log, res, hist>>
  /\ LockFrame

\* length = value.length_
R_Length ==
  /\ sess[Reader].pc = "length"
  /\ sess' = [sess EXCEPT ![Reader].pc = "after", ![Reader].length = TheValue.length_]
  /\ UNCHANGED <<log, res, hist>>
  /\ LockFrame

\* after = value.gen_lock_.load(); while(before.gen_number != after.gen_number);
\* cb_(target_, buffer, length, Ok)
R_After ==
  /\ sess[Reader].pc = "after"
  /\ IF gen_number(sess[Reader].before) # gen_number(TheValue.gen_lock)
       THEN /\ sess' = [sess EXCEPT ![Reader].pc = "before"]
            /\ UNCHANGED res
       ELSE /\ sess' = [sess EXCEPT ![Reader].pc = "idle"]
            /\ res' = [op |-> "read", key |-> TheKey, status |-> Ok,
                       out |-> [length |-> sess[Reader].length, bytes |-> sess[Reader].buffer],
                       path |-> "getatomic", addr |-> TheAddress, before |-> "upsert"]
  /\ UNCHANGED <<log, hist>>
  /\ LockFrame

NextLock ==
  \/ \E t \in Writers : \E input \in LockInputs : W_Call(t, "put", input)
  \/ \E t \in Writers : \E modification \in LockModifications : W_Call(t, "rmw", modification)
  \/ \E t \in Writers : W_TryLoad(t)
  \/ \E t \in Writers : W_TryCas(t)
  \/ \E t \in Writers : W_CheckSize(t)
  \/ \E t \in Writers : W_WriteLength(t)
  \/ \E t \in Writers : W_Memcpy(t)
  \/ \E t \in Writers : W_Unlock(t)
  \/ R_Call
  \/ R_Before
  \/ R_Realloc
  \/ R_Count
  \/ R_Memcpy
  \/ R_Length
  \/ R_After

SpecLock == InitLock /\ [][NextLock]_vars

\* the statements of a writer inside PutAtomic or RmwAtomic
W_Step(t) ==
  \/ W_TryLoad(t)
  \/ W_TryCas(t)
  \/ W_CheckSize(t)
  \/ W_WriteLength(t)
  \/ W_Memcpy(t)
  \/ W_Unlock(t)

\* every thread inside a call keeps being scheduled: the yield in the loop
\* around try_lock returns
SpecLockLive == SpecLock /\ \A t \in Writers : WF_vars(W_Step(t))

-----------------------------------------------------------------------------
(* The lock word alone: threads lock and unlock a record whose generation
   number starts anywhere in its range *)

\* unlocks in one run
MaxUnlocks == 6

NoHolder == [holder |-> "none", before |-> 0, grew |-> FALSE, unlocks |-> 0, last |-> "none"]

InitWord ==
  /\ stype = StoreBytes
  /\ \E g \in 0..(LockedBit - 1) : \E input \in LockInputs \cup {InitialInput} :
       LET rec == Record(FALSE, FALSE, 0, TheKey,
                         [UpsertContext_Put(input) EXCEPT !.gen_lock = g])
       IN /\ log = (TheAddress :> rec)
          /\ tail_address = TheAddress + record_size(StoreBytes, rec)
  /\ index = [t \in Tags |-> TheAddress]
  /\ read_only_address = kBeginAddress
  /\ safe_read_only_address = kBeginAddress
  /\ head_address = kBeginAddress
  /\ begin_address = kBeginAddress
  /\ iter = NoIterator
  /\ out = 0
  /\ sess = NoHolder
  /\ res = NoResult
  /\ hist = <<>>

\* value.gen_lock_.try_lock(replaced), the load and the compare-exchange in one step
U_TryLock(t) ==
  /\ sess.holder = "none"
  /\ sess.unlocks < MaxUnlocks
  /\ LET l == try_lock(TheValue.gen_lock) IN
       /\ SetValue([TheValue EXCEPT !.gen_lock = l.control])
       /\ sess' = [sess EXCEPT !.holder = IF l.acquired THEN t ELSE "none",
                               !.before = TheValue.gen_lock,
                               !.last = IF l.acquired THEN "acquired"
                                        ELSE IF l.replaced THEN "replaced" ELSE "busy"]
  /\ UNCHANGED <<res, hist>>
  /\ LockFrame

\* value.gen_lock_.unlock(grew), by the thread that holds the lock
U_Unlock(t, grew) ==
  /\ sess.holder = t
  /\ SetValue([TheValue EXCEPT !.gen_lock = unlock(@, grew)])
  /\ sess' = [sess EXCEPT !.holder = "none", !.before = TheValue.gen_lock, !.grew = grew,
                          !.unlocks = @ + 1, !.last = "unlock"]
  /\ UNCHANGED <<res, hist>>
  /\ LockFrame

NextWord ==
  \/ \E t \in Writers : U_TryLock(t)
  \/ \E t \in Writers : \E grew \in BOOLEAN : U_Unlock(t, grew)

SpecWord == InitWord /\ [][NextWord]_vars

-----------------------------------------------------------------------------
(* Several sessions on one store: the engine's operations step by step *)

Sessions == {"s1", "s2"}

\* operations each session issues in one run
MaxOps == 2

\* records the log takes in the concurrent scenarios
MaxConcRecords == 4

IdleSession == [pc |-> "idle", op |-> "none", key |-> 0, arg |-> 0, entry |-> 0, addr |-> 0,
                new |-> 0, tmp |-> 0, left |-> MaxOps]

\* the value session t upserts with its n-th operation: no two Upserts write the
\* same, and none writes 0
UpsertValue(t, left) == (IF t = "s1" THEN 0 ELSE MaxOps) + (MaxOps - left) + 1

InitConc(types) ==
  /\ stype \in types
  /\ InitEngine
  /\ iter = NoIterator
  /\ out = 0
  /\ sess = [t \in Sessions |-> IdleSession]
  /\ res = NoResult
  /\ hist = [sum |-> 0, last |-> [t \in Sessions |-> [k \in Keys |-> 0]]]

ConcFrame == UNCHANGED <<stype, safe_read_only_address, head_address, begin_address, iter, out>>

AllIdle == \A t \in Sessions : sess[t].pc = "idle"

C_Call(t, op, k, arg) ==
  /\ sess[t].pc = "idle"
  /\ sess[t].left > 0
  /\ sess' = [sess EXCEPT ![t] = [IdleSession EXCEPT !.pc = "lookup", !.op = op, !.key = k,
                                                   !.arg = arg, !.left = sess[t].left]]
  /\ UNCHANGED <<log, index, tail_address, read_only_address, res, hist>>
  /\ ConcFrame

\* the '+1' RMW on the one key all sessions share
C_CallRmw(t) == C_Call(t, "rmw", TheKey, 1)

C_CallUpsert(t, k) == C_Call(t, "upsert", k, UpsertValue(t, sess[t].left))

\* the session reads the index entry, walks the chain and picks its path
C_Lookup(t) ==
  /\ sess[t].pc = "lookup"
  /\ LET a == Lookup(Engine, sess[t].key)
         inplace == /\ a # 0 /\ a >= read_only_address /\ ~log[a].tombstone
                    /\ sess[t].op # "delete"
     IN sess' = [sess EXCEPT ![t].entry = FindEntry(Engine, sess[t].key),
                             ![t].addr = a,
                             ![t].pc = IF inplace THEN "inplace" ELSE "create"]
  /\ UNCHANGED <<log, index, tail_address, read_only_address, res, hist>>
  /\ ConcFrame

\* the session's operation has returned Ok
Complete(t) ==
  /\ res' = [op |-> sess[t].op, key |-> sess[t].key, status |-> Ok, out |-> NoValue,
             path |-> sess[t].pc, addr |-> sess[t].addr, before |-> "none"]
  /\ hist' = [hist EXCEPT !.sum = IF sess[t].op = "rmw" THEN @ + sess[t].arg ELSE @,
                          !.last[t][sess[t].key] = IF sess[t].op = "upsert" THEN sess[t].arg ELSE @]

Returned(t) == [IdleSession EXCEPT !.left = sess[t].left - 1]

\* PutAtomic of the u64 stores and RmwAtomic of the fetch_add store: one store or
\* one atomic instruction
C_InPlace(t) ==
  /\ sess[t].pc = "inplace"
  /\ sess[t].op = "upsert" \/ stype = StoreA64
  /\ LET a == sess[t].addr
         r == IF sess[t].op = "upsert"
                THEN PutAtomic(stype, sess[t].arg, log[a].value)
                ELSE RmwAtomic(stype, sess[t].arg, log[a].value)
     IN log' = [log EXCEPT ![a].value = r.value]
  /\ sess' = [sess EXCEPT ![t] = Returned(t)]
  /\ Complete(t)
  /\ UNCHANGED <<index, tail_address, read_only_address>>
  /\ ConcFrame

\* RmwU64Context::RmwAtomic, value.value_ += modification_: the load ...
C_RmwLoad(t) ==
  /\ sess[t].pc = "inplace"
  /\ sess[t].op = "rmw" /\ stype = StoreU64
  /\ sess' = [sess EXCEPT ![t].pc = "store", ![t].tmp = log[sess[t].addr].value.value_]
  /\ UNCHANGED <<log, index, tail_address, read_only_address, res, hist>>
  /\ ConcFrame

\* ... and the store of the sum
C_RmwStore(t) ==
  /\ sess[t].pc = "store"
  /\ log' = [log EXCEPT ![sess[t].addr].value =
               RmwU64Context_RmwAtomic(sess[t].arg, WordValue(sess[t].tmp)).value]
  /\ sess' = [sess EXCEPT ![t] = Returned(t)]
  /\ Complete(t)
  /\ UNCHANGED <<index, tail_address, read_only_address>>
  /\ ConcFrame

\* the value of the record an operation appends
NewValue(t) ==
  IF sess[t].op = "upsert" THEN Put(stype, sess[t].arg)
  ELSE IF sess[t].op = "delete" THEN ZeroValue(stype)
  ELSE IF sess[t].addr = 0 \/ log[sess[t].addr].tombstone THEN RmwInitial(stype, sess[t].arg)
  ELSE RmwCopy(stype, sess[t].arg, log[sess[t].addr].value)

\* the session allocates a record and fills it in; nothing points to it yet
C_Create(t) ==
  /\ sess[t].pc = "create"
  /\ Cardinality(DOMAIN log) < MaxConcRecords
  /\ LET rec == Record(FALSE, sess[t].op = "delete", sess[t].entry, sess[t].key, NewValue(t))
         al == Allocate(tail_address, record_size(stype, rec))
     IN /\ log' = log @@ (al.address :> rec)
        /\ tail_address' = al.tail
        /\ sess' = [sess EXCEPT ![t].pc = "cas", ![t].new = al.address]
  /\ UNCHANGED <<index, read_only_address, res, hist>>
  /\ ConcFrame

\* what a session does when its compare-and-swap on the index entry misses
OnCasMiss_GiveUp(s) == [IdleSession EXCEPT !.left = s.left - 1]

OnCasMiss(s) == [s EXCEPT !.pc = "lookup"]

\* a compare-and-swap that, on a miss, keeps the record it allocated, links it
\* to the chain head it finds now and tries again
C_Cas_Relink(t) ==
  /\ sess[t].pc = "cas"
  /\ IF index[Tag(sess[t].key)] = sess[t].entry
       THEN /\ index' = [index EXCEPT ![Tag(sess[t].key)] = sess[t].new]
            /\ sess' = [sess EXCEPT ![t] = Returned(t)]
            /\ Complete(t)
            /\ UNCHANGED log
       ELSE /\ log' = [log EXCEPT ![sess[t].new].previous_address = index[Tag(sess[t].key)]]
            /\ sess' = [sess EXCEPT ![t].entry = index[Tag(sess[t].key)]]
            /\ UNCHANGED <<res, hist, index>>
  /\ UNCHANGED <<tail_address, read_only_address>>
  /\ ConcFrame

\* the compare-and-swap of the index entry from the address seen to the new record;
\* on a miss the new record is marked invalid and the operation starts over
C_Cas(t) ==
  /\ sess[t].pc = "cas"
  /\ IF index[Tag(sess[t].key)] = sess[t].entry
       THEN /\ index' = [index EXCEPT ![Tag(sess[t].key)] = sess[t].new]
            /\ sess' = [sess EXCEPT ![t] = Returned(t)]
            /\ Complete(t)
            /\ UNCHANGED log
       ELSE /\ log' = [log EXCEPT ![sess[t].new].invalid = TRUE]
            /\ sess' = [sess EXCEPT ![t] = OnCasMiss(sess[t])]
            /\ IF sess'[t].pc = "idle" THEN Complete(t) ELSE UNCHANGED <<res, hist>>
            /\ UNCHANGED index
  /\ UNCHANGED <<tail_address, read_only_address>>
  /\ ConcFrame

\* read_only moves while no operation is in flight: sessions take up a new
\* read_only only when they refresh their epoch, between operations
C_ShiftReadOnly ==
  /\ AllIdle
  /\ read_only_address < tail_address
  /\ read_only_address' = tail_address
  /\ UNCHANGED <<log, index, tail_address, sess, res, hist>>
  /\ ConcFrame

NextRmw ==
  \/ \E t \in Sessions : C_CallRmw(t)
  \/ \E t \in Sessions : C_Lookup(t)
  \/ \E t \in Sessions : C_InPlace(t)
  \/ \E t \in Sessions : C_RmwLoad(t)
  \/ \E t \in Sessions : C_RmwStore(t)
  \/ \E t \in Sessions : C_Create(t)
  \/ \E t \in Sessions : C_Cas(t)
  \/ C_ShiftReadOnly

InitRmw == InitConc({StoreU64, StoreA64})

SpecRmw == InitRmw /\ [][NextRmw]_vars

NextUpsert ==
  \/ \E t \in Sessions : \E k \in Keys : C_CallUpsert(t, k)
  \/ \E t \in Sessions : C_Lookup(t)
  \/ \E t \in Sessions : C_InPlace(t)
  \/ \E t \in Sessions : C_Create(t)
  \/ \E t \in Sessions : C_Cas(t)
  \/ C_ShiftReadOnly

InitUpsert == InitConc({StoreU64, StoreA64})

SpecUpsert == InitUpsert /\ [][NextUpsert]_vars

\* Delete of the one key all sessions share: a tombstone record is appended
C_CallDelete(t) == C_Call(t, "delete", TheKey, 0)

\* Upserts, RMWs and Deletes of the same key from all sessions
NextMix ==
  \/ \E t \in Sessions : C_CallUpsert(t, TheKey)
  \/ \E t \in Sessions : C_CallRmw(t)
  \/ \E t \in Sessions : C_CallDelete(t)
  \/ \E t \in Sessions : C_Lookup(t)
  \/ \E t \in Sessions : C_InPlace(t)
  \/ \E t \in Sessions : C_RmwLoad(t)
  \/ \E t \in Sessions : C_RmwStore(t)
  \/ \E t \in Sessions : C_Create(t)
  \/ \E t \in Sessions : C_Cas(t)
  \/ C_ShiftReadOnly

InitMix == InitConc({StoreU64, StoreA64})

SpecMix == InitMix /\ [][NextMix]_vars

-----------------------------------------------------------------------------
(* Epoch protection, anchor advances and the scan: sessions refresh, the log
   schedules its anchor advances as drain actions, and one thread scans *)

\* epoch bumps in one run
MaxBumps == 4

\* drain actions waiting at one time
MaxDrain == 2

\* checkpoints taken in one run
MaxCheckpoints == 1

\* the phases of a checkpoint, in the order they are gone through
Phases == <<"Rest", "Prepare", "InProgress", "WaitPending", "WaitFlush", "PersistenceCallback">>

\* local_epoch of a thread that is not protected: above every epoch a run
\* reaches with its anchor advances and its checkpoints
Infinity == MaxBumps + Len(Phases) * MaxCheckpoints + 2

InitEpoch == [current_epoch |-> 1,
              local_epoch |-> [t \in Sessions |-> Infinity],
              drain |-> <<>>,
              ran |-> [e \in 2..(MaxBumps + 1) |-> 0]]

\* protect(session): publish local_epoch := current_epoch
Protect(ep, t) == [ep EXCEPT !.local_epoch[t] = ep.current_epoch]

\* unprotect(session): publish local_epoch := infinity
Unprotect(ep, t) == [ep EXCEPT !.local_epoch[t] = Infinity]

\* an epoch that counts as safe once one thread has reached it
SafeAt_Some(ep, E) == \E t \in Sessions : ep.local_epoch[t] >= E

\* every active local_epoch is at least E
SafeAt(ep, E) == \A t \in Sessions : ep.local_epoch[t] >= E

\* bump_and_wait(action): increment current_epoch to E, record (E, action)
BumpAndWait(ep, action) ==
  [ep EXCEPT !.current_epoch = ep.current_epoch + 1,
             !.drain = Append(ep.drain, [epoch |-> ep.current_epoch + 1, action |-> action])]

\* the drain actions that are safe to execute, in the order they were recorded,
\* and the ones that stay on the list
Ready(ep) == SelectSeq(ep.drain, LAMBDA d : SafeAt(ep, d.epoch))

Waiting(ep) == SelectSeq(ep.drain, LAMBDA d : ~SafeAt(ep, d.epoch))

\* how often a refresh invokes the action recorded at epoch e
Invoked(ep, e) == Cardinality({i \in DOMAIN Ready(ep) : Ready(ep)[i].epoch = e})

\* a drain list that keeps the actions it has run
Taken_Keep(ep) == ep.drain

\* the drain list after the ready actions were taken off it
Taken(ep) == Waiting(ep)

\* an anchor update that stores its target whatever the anchor holds
MonotonicUpdate_Store(anchor, target) == target

\* an anchor only ever moves up
MonotonicUpdate(anchor, target) == IF target > anchor THEN target ELSE anchor

\* the anchors after one drain action ran
RunAction(an, action) ==
  [an EXCEPT ![action.anchor] = MonotonicUpdate(an[action.anchor], action.target)]

RECURSIVE RunAll(_, _)
RunAll(an, ds) ==
  IF ds = <<>> THEN an ELSE RunAll(RunAction(an, Head(ds).action), Tail(ds))

Anchors == [read_only |-> read_only_address, safe_read_only |-> safe_read_only_address,
            head |-> head_address, begin |-> begin_address]

\* the advances the anchor policy may schedule: read_only up to the tail,
\* safe_read_only up to read_only, head up to safe_read_only, begin up to head,
\* each to a record boundary
Boundaries(lo, hi) == {a \in DOMAIN log \cup {tail_address} : lo < a /\ a <= hi}

Advances ==
  {[anchor |-> "read_only", target |-> a] : a \in Boundaries(read_only_address, tail_address)}
  \cup {[anchor |-> "safe_read_only", target |-> a] :
          a \in Boundaries(safe_read_only_address, read_only_address) \cap {read_only_address}}
  \cup {[anchor |-> "head", target |-> a] :
          a \in Boundaries(head_address, safe_read_only_address)}
  \cup {[anchor |-> "begin", target |-> a] : a \in Boundaries(begin_address, head_address)}

InitEvict ==
  /\ stype = StoreA64
  /\ InitEngine
  /\ iter = NoIterator
  /\ out = 0
  /\ sess = InitEpoch
  /\ res = NoResult
  /\ hist = InitHist

E_StartSession(t) ==
  /\ sess.local_epoch[t] = Infinity
  /\ sess' = Protect(sess, t)
  /\ UNCHANGED <<stype, log, index, anchors, iter, out, res, hist>>

\* the handles faster_stop_session has no case for
NoStopHandles == {StorePerson, StoreAuctions, StoreU64, StoreU64Pair, StoreTenElements,
                  StoreAuctionBids}

\* faster_stop_session: StopSession of the store where the switch has a case
\* for the handle's type, nothing otherwise
faster_stop_session(ty, ep, t) ==
  IF ty \in NoStopHandles THEN ep ELSE Unprotect(ep, t)

E_StopSession(t) ==
  /\ sess.local_epoch[t] # Infinity
  /\ sess' = faster_stop_session(stype, sess, t)
  /\ UNCHANGED <<stype, log, index, anchors, iter, out, res, hist>>

\* the log schedules an anchor advance
E_Schedule(action) ==
  /\ sess.current_epoch <= MaxBumps
  /\ Len(sess.drain) < MaxDrain
  /\ sess' = BumpAndWait(sess, action)
  /\ UNCHANGED <<stype, log, index, anchors, iter, out, res, hist>>

\* refresh(session): re-read current_epoch, then run the drain actions that
\* are now safe
E_Refresh(t) ==
  /\ sess.local_epoch[t] # Infinity
  /\ LET ep == Protect(sess, t)
         an == RunAll(Anchors, Ready(ep))
     IN /\ sess' = [ep EXCEPT !.drain = Taken(ep),
                               !.ran = [e \in DOMAIN @ |-> @[e] + Invoked(ep, e)]]
        /\ read_only_address' = an.read_only
        /\ safe_read_only_address' = an.safe_read_only
        /\ head_address' = an.head
        /\ begin_address' = an.begin
  /\ UNCHANGED <<stype, log, index, tail_address, iter, out, res, hist>>

\* a call of GetNext by the scanning thread, which may follow a call that failed
E_GetNext ==
  /\ iter.pc = "idle"
  /\ iter.ret \notin {"hang", "misaligned"}
  /\ LET g == GetNext(iter, out, stype, log, begin_address, head_address) IN
       /\ iter' = g.iter
       /\ out' = g.out
  /\ UNCHANGED <<stype, log, index, anchors, sess, res, hist>>

\* the writers of this scenario all write the same value
EvictInput == CHOOSE input \in Inputs(StoreA64) : \A other \in Inputs(StoreA64) : input <= other

NextEvict ==
  \/ \E k \in Keys : KvUpsert(k, EvictInput)
  \/ \E t \in Sessions : E_StartSession(t)
  \/ \E t \in Sessions : E_StopSession(t)
  \/ \E action \in Advances : E_Schedule(action)
  \/ \E t \in Sessions : E_Refresh(t)
  \/ ScanInMemory
  \/ E_GetNext

SpecEvict == InitEvict /\ [][NextEvict]_vars

-----------------------------------------------------------------------------
(* A scan of a log that concurrent Upserts have written, invalid records included *)

\* a scan iterator over the records in memory
T_ScanInMemory ==
  /\ iter.pc = "none"
  /\ iter' = FasterIterator(head_address, tail_address)
  /\ UNCHANGED <<stype, log, index, anchors, out, sess, res, hist>>

NextScanConc ==
  \/ NextUpsert
  \/ T_ScanInMemory
  \/ E_GetNext

SpecScanConc == InitUpsert /\ [][NextScanConc]_vars

-----------------------------------------------------------------------------
(* Sessions opened and closed through the C interface, on handles of the
   store types the interface opens *)

InitClose ==
  /\ stype \in {StoreBytes, StorePerson, StoreAuctions, StoreU64}
  /\ InitEngine
  /\ iter = NoIterator
  /\ out = 0
  /\ sess = InitEpoch
  /\ res = NoResult
  /\ hist = [open |-> [t \in Sessions |-> FALSE]] @@ InitHist

\* faster_start_session, by a thread that has no session open
Cl_StartSession(t) ==
  /\ ~hist.open[t]
  /\ sess' = Protect(sess, t)
  /\ hist' = [hist EXCEPT !.open[t] = TRUE]
  /\ UNCHANGED <<stype, log, index, anchors, iter, out, res>>

\* faster_stop_session, by a thread that has a session open
Cl_StopSession(t) ==
  /\ hist.open[t]
  /\ sess' = faster_stop_session(stype, sess, t)
  /\ hist' = [hist EXCEPT !.open[t] = FALSE]
  /\ UNCHANGED <<stype, log, index, anchors, iter, out, res>>

Cl_Refresh(t) == hist.open[t] /\ E_Refresh(t)

CloseInput == CHOOSE input \in Inputs(stype) : TRUE

CloseKey == CHOOSE k \in Keys : TRUE

NextClose ==
  \/ \E t \in Sessions : Cl_StartSession(t)
  \/ \E t \in Sessions : Cl_StopSession(t)
  \/ \E t \in Sessions : Cl_Refresh(t)
  \/ \E action \in Advances : E_Schedule(action)
  \/ KvUpsert(CloseKey, CloseInput)

SpecClose == InitClose /\ [][NextClose]_vars

-----------------------------------------------------------------------------
(* Checkpoints: the phases a checkpoint goes through, each left by a drain
   action that bump_and_wait recorded when the phase was entered *)

\* the handles faster_checkpoint forwards to the store: NULL_DISK and FILESYSTEM_DISK
CheckpointHandles == {StoreBytes}

NextPhase(p) ==
  LET i == CHOOSE j \in DOMAIN Phases : Phases[j] = p IN Phases[(i % Len(Phases)) + 1]

\* the in_new_version bit of a record appended in phase p
InNewVersion(p) == p \notin {"Rest", "Prepare"}

InitCheckpoint ==
  /\ stype \in CheckpointHandles \cup {StorePerson}
  /\ InitEngine
  /\ iter = NoIterator
  /\ out = 0
  /\ sess = [phase |-> "Rest", entered |-> 0, started |-> 0, checked |-> FALSE] @@ InitEpoch
  /\ res = NoResult
  /\ hist = [at |-> <<>>, in_new_version |-> <<>>]

\* faster_checkpoint: Checkpoint of the store for the two handle types of the
\* switch, which starts a checkpoint if none is running; for any other handle
\* `checked` is returned as it was allocated
K_Checkpoint(t, garbage) ==
  /\ sess.local_epoch[t] # Infinity
  /\ IF stype \in CheckpointHandles
       THEN IF sess.phase = "Rest"
              THEN /\ sess.started < MaxCheckpoints
                   /\ sess' = BumpAndWait([sess EXCEPT !.phase = "Prepare",
                                                       !.entered = sess.current_epoch + 1,
                                                       !.started = @ + 1,
                                                       !.checked = TRUE],
                                          [to |-> NextPhase("Prepare")])
              ELSE sess' = [sess EXCEPT !.checked = FALSE]
       ELSE sess' = [sess EXCEPT !.checked = garbage]
  /\ UNCHANGED <<stype, log, index, anchors, iter, out, res, hist>>

\* refresh(session): re-read current_epoch, then run the drain action that is
\* now safe: the checkpoint enters its next phase, and unless that is Rest
\* the transition after it is recorded with bump_and_wait
K_Refresh(t) ==
  /\ sess.local_epoch[t] # Infinity
  /\ LET ep == Protect(sess, t) IN
       IF Ready(ep) = <<>> THEN sess' = ep
       ELSE LET to == Head(Ready(ep)).action.to
                moved == [ep EXCEPT !.drain = Taken(ep), !.phase = to]
            IN sess' = IF to = "Rest" THEN moved
                       ELSE BumpAndWait([moved EXCEPT !.entered = ep.current_epoch + 1],
                                        [to |-> NextPhase(to)])
  /\ UNCHANGED <<stype, log, index, anchors, iter, out, res, hist>>

CheckpointInput == CHOOSE input \in Inputs(stype) : TRUE

\* an Upsert by a session; the record it appends carries the in_new_version
\* bit of the phase it was appended in
K_Upsert(t, k) ==
  LET r == faster_upsert(Engine, stype, k, CheckpointInput)
      new == DOMAIN r.st.log \ DOMAIN log
  IN /\ sess.local_epoch[t] # Infinity
     /\ r.appended => HasRoom
     /\ log' = r.st.log
     /\ index' = r.st.index
     /\ tail_address' = r.st.tail
     /\ hist' = [at |-> [a \in new |-> sess.phase] @@ hist.at,
                 in_new_version |-> [a \in new |-> InNewVersion(sess.phase)]
                                      @@ hist.in_new_version]
     /\ UNCHANGED <<stype, read_only_address, safe_read_only_address, head_address,
                    begin_address, iter, out, sess, res>>

NextCheckpoint ==
  \/ \E t \in Sessions : E_StartSession(t)
  \/ \E t \in Sessions : E_StopSession(t)
  \/ \E t \in Sessions : \E garbage \in BOOLEAN : K_Checkpoint(t, garbage)
  \/ \E t \in Sessions : K_Refresh(t)
  \/ \E t \in Sessions : K_Upsert(t, CloseKey)

SpecCheckpoint == InitCheckpoint /\ [][NextCheckpoint]_vars

\* every session keeps running and keeps refreshing
SpecCheckpointLive ==
  /\ SpecCheckpoint
  /\ \A t \in Sessions : WF_vars(E_StartSession(t)) /\ SF_vars(K_Refresh(t))

-----------------------------------------------------------------------------
(* Serial numbers: one session issues Upserts, each with the monotonic serial
   number its caller chose *)

\* serial numbers a caller passes
MaxSerial == 2

NoSerials == [serial |-> 0, previous |-> 0]

InitSerial ==
  /\ stype = StoreU8
  /\ InitEngine
  /\ iter = NoIterator
  /\ out = 0
  /\ sess = NoSerials
  /\ res = NoResult
  /\ hist = InitHist

\* store.Upsert(context, callback, serial): the status is the Upsert's, whatever
\* serial numbers the session passed before
S_Upsert(k, serial) ==
  LET r == faster_upsert(Engine, stype, k, 0) IN
  /\ r.appended => HasRoom
  /\ log' = r.st.log
  /\ index' = r.st.index
  /\ tail_address' = r.st.tail
  /\ res' = [NoResult EXCEPT !.op = "upsert", !.key = k, !.status = r.status,
                             !.path = r.path, !.addr = r.addr]
  /\ sess' = [serial |-> serial, previous |-> sess.serial]
  /\ UNCHANGED <<stype, read_only_address, safe_read_only_address, head_address,
                 begin_address, iter, out, hist>>

NextSerial ==
  \/ \E k \in ScanKeys : \E serial \in 1..MaxSerial : S_Upsert(k, serial)
  \/ ShiftReadOnly

SpecSerial == InitSerial /\ [][NextSerial]_vars

-----------------------------------------------------------------------------
(* Pending operations: one session whose records fall below head, the disk
   that reads them back, and CompletePending *)

\* operations of one run that are Reads or went pending
MaxCalls == 2

NoCall == [issued |-> FALSE, op |-> "none", status |-> Ok, fired |-> 0, delivered |-> 0,
           with |-> Ok]

InitPending ==
  /\ stype \in {StoreU64, StoreP64}
  /\ InitEngine
  /\ iter = NoIterator
  /\ out = 0
  /\ sess = [pending |-> <<>>, cp |-> "idle"]
  /\ res = NoResult
  /\ hist = [calls |-> [id \in 1..MaxCalls |-> NoCall], n |-> 0]

\* the value the Upserts of this scenario write
PendingInput == CHOOSE input \in Inputs(stype) : TRUE

\* the completion callback faster_read_u64 hands to the engine: ReturnNotFound,
\* which calls the user callback, when the result is NotFound
faster_read_u64_callback(result) == IF result = NotFound THEN 1 ELSE 0

\* the completion callback of the pointer interface's faster_read: it only
\* takes ownership of the context
P64_faster_read_callback(result) == 0

\* how often the completion callback of a Read calls the user callback
ReadCallback(ty, result) ==
  IF ty = StoreP64 THEN P64_faster_read_callback(result) ELSE faster_read_u64_callback(result)

\* head advances to a record boundary that is no longer mutable
ShiftHeadAddress ==
  /\ \E a \in DOMAIN log \cup {tail_address} :
       /\ a > head_address
       /\ a <= safe_read_only_address
       /\ head_address' = a
  /\ UNCHANGED <<stype, log, index, tail_address, read_only_address, safe_read_only_address,
                 begin_address, iter, out, sess, res, hist>>

PendingWrites == Cardinality({i \in DOMAIN sess.pending : sess.pending[i].op = "upsert"})

\* room in the log for one more record, counting the ones pending Upserts will need
Room == Cardinality(DOMAIN log) + PendingWrites < MaxRecords

Enqueue(id, op, k, input, address) ==
  Append(sess.pending, [id |-> id, op |-> op, key |-> k, input |-> input,
                        address |-> address, io |-> FALSE])

\* faster_read: the engine's Read called Get or GetAtomic, which calls the user
\* callback, when it returned Ok; the shim calls it when the Read returned NotFound
P_Read(k) ==
  LET r == faster_read(Engine, stype, k)
      id == hist.n + 1
  IN /\ sess.cp = "idle"
     /\ hist.n < MaxCalls
     /\ sess' = [sess EXCEPT !.pending = IF r.status = Pending
                                           THEN Enqueue(id, "read", k, PendingInput, r.addr)
                                           ELSE @]
     /\ hist' = [hist EXCEPT !.n = id,
                             !.calls[id] = [issued |-> TRUE, op |-> "read",
                                            status |-> r.status, fired |-> 0,
                                            delivered |-> IF r.status = Pending THEN 0 ELSE 1,
                                            with |-> r.status]]
     /\ UNCHANGED <<stype, log, index, anchors, iter, out, res>>

P_Upsert(k) ==
  LET r == faster_upsert(Engine, stype, k, PendingInput)
      id == hist.n + 1
  IN /\ sess.cp = "idle"
     /\ (r.appended \/ r.status = Pending) => Room
     /\ r.status = Pending => hist.n < MaxCalls
     /\ log' = r.st.log
     /\ index' = r.st.index
     /\ tail_address' = r.st.tail
     /\ sess' = [sess EXCEPT !.pending = IF r.status = Pending
                                           THEN Enqueue(id, "upsert", k, PendingInput, r.addr)
                                           ELSE @]
     /\ hist' = IF r.status # Pending THEN hist
                ELSE [hist EXCEPT !.n = id,
                                  !.calls[id] = [NoCall EXCEPT !.issued = TRUE,
                                                               !.op = "upsert",
                                                               !.status = Pending]]
     /\ UNCHANGED <<stype, read_only_address, safe_read_only_address, head_address,
                    begin_address, iter, out, res>>

P_Delete(k) ==
  LET r == faster_delete(Engine, stype, k) IN
  /\ sess.cp = "idle"
  /\ Room
  /\ log' = r.st.log
  /\ index' = r.st.index
  /\ tail_address' = r.st.tail
  /\ UNCHANGED <<stype, read_only_address, safe_read_only_address, head_address,
                 begin_address, iter, out, sess, res, hist>>

\* the disk finishes reading the record a pending operation waits for
P_IoComplete(i) ==
  /\ ~sess.pending[i].io
  /\ sess' = [sess EXCEPT !.pending[i].io = TRUE]
  /\ UNCHANGED <<stype, log, index, anchors, iter, out, res, hist>>

\* a queue that keeps the operations it has completed
Remaining_Keep(pending) == pending

\* the operations whose record has not been read yet stay on the queue
Remaining(pending) == SelectSeq(pending, LAMBDA e : ~e.io)

Completed(pending) == SelectSeq(pending, LAMBDA e : e.io)

\* the engine completes one operation: a Read calls Get on the record read from
\* disk unless it is a tombstone, an Upsert appends its record; then the
\* operation's completion callback runs
CompleteOne(s, ty, e) ==
  LET found == ~s.st.log[e.address].tombstone
      result == IF e.op = "read" /\ ~found THEN NotFound ELSE Ok
      gets == IF e.op = "read" /\ found THEN 1 ELSE 0
      calls == IF e.op = "read" THEN ReadCallback(ty, result) ELSE 0
  IN [st |-> IF e.op = "upsert" THEN CreateRecord(s.st, ty, e.key, Put(ty, e.input), FALSE)
             ELSE s.st,
      calls |-> [s.calls EXCEPT ![e.id].fired = @ + 1,
                                ![e.id].delivered = @ + gets + calls,
                                ![e.id].with = result]]

RECURSIVE CompleteAll(_, _, _)
CompleteAll(s, ty, es) ==
  IF es = <<>> THEN s ELSE CompleteAll(CompleteOne(s, ty, Head(es)), ty, Tail(es))

\* faster_complete_pending(wait): the session enters CompletePending
CP_Call(wait) ==
  /\ sess.cp = "idle"
  /\ sess' = [sess EXCEPT !.cp = IF wait THEN "wait" ELSE "once"]
  /\ UNCHANGED <<stype, log, index, anchors, iter, out, res, hist>>

\* it completes the operations whose I/O has finished
CP_Process ==
  /\ sess.cp # "idle"
  /\ Completed(sess.pending) # <<>>
  /\ LET s == CompleteAll([st |-> Engine, calls |-> hist.calls], stype,
                          Completed(sess.pending))
     IN /\ log' = s.st.log
        /\ index' = s.st.index
        /\ tail_address' = s.st.tail
        /\ hist' = [hist EXCEPT !.calls = s.calls]
        /\ sess' = [sess EXCEPT !.pending = Remaining(sess.pending)]
  /\ UNCHANGED <<stype, read_only_address, safe_read_only_address, head_address,
                 begin_address, iter, out, res>>

\* it returns when nothing is ready and, if it was to wait, nothing is left
CP_Return ==
  /\ sess.cp # "idle"
  /\ Completed(sess.pending) = <<>>
  /\ sess.cp = "wait" => sess.pending = <<>>
  /\ sess' = [sess EXCEPT !.cp = "idle"]
  /\ UNCHANGED <<stype, log, index, anchors, iter, out, res, hist>>

NextPending ==
  \/ \E k \in Keys : P_Read(k)
  \/ \E k \in Keys : P_Upsert(k)
  \/ \E k \in Keys : P_Delete(k)
  \/ \E i \in DOMAIN sess.pending : P_IoComplete(i)
  \/ \E wait \in BOOLEAN : CP_Call(wait)
  \/ CP_Process
  \/ CP_Return
  \/ ShiftReadOnly
  \/ ShiftSafeReadOnly
  \/ ShiftHeadAddress

SpecPending == InitPending /\ [][NextPending]_vars

\* the disk finishes every read it was given, and a session inside
\* CompletePending keeps running
SpecPendingLive ==
  /\ SpecPending
  /\ WF_vars(\E i \in DOMAIN sess.pending : P_IoComplete(i))
  /\ WF_vars(CP_Process)
  /\ WF_vars(CP_Return)

-----------------------------------------------------------------------------
(* Reads of records in every region of the log: one session writes, reads and
   deletes while read_only, safe_read_only and head advance *)

\* a Read, with the anchors and the record it found as they were when it ran
Rd_Read(k) ==
  LET r == faster_read(Engine, stype, k)
      a == Lookup(Engine, k)
  IN /\ res' = [NoResult EXCEPT !.op = "read", !.key = k, !.status = r.status,
                                !.out = r.out, !.path = r.path, !.addr = r.addr]
     /\ sess' = [address |-> a,
                 tombstone |-> a # 0 /\ log[a].tombstone,
                 value |-> IF a = 0 THEN ZeroValue(stype) ELSE log[a].value,
                 head |-> head_address,
                 safe_read_only |-> safe_read_only_address]
     /\ UNCHANGED <<stype, log, index, anchors, iter, out, hist>>

NextRead ==
  \/ \E k \in Keys : \E input \in Inputs(stype) : KvUpsert(k, input)
  \/ \E k \in Keys : Rd_Read(k)
  \/ \E k \in Keys : KvDelete(k)
  \/ ShiftReadOnly
  \/ ShiftSafeReadOnly
  \/ ShiftHeadAddress

InitRead == InitKv({StoreU8, StoreU64})

SpecRead == InitRead /\ [][NextRead]_vars

-----------------------------------------------------------------------------
(* Index grow: the buckets double, the threads rehash one source bucket at a
   time, and Upserts keep arriving in between *)

\* buckets of the index before it grows
NumBuckets == 2

\* the handles faster_grow_index forwards to the store: NULL_DISK and FILESYSTEM_DISK
GrowHandles == {StoreBytes}

NoGrow == [phase |-> "rest", next |-> <<>>, done |-> {}, ret |-> FALSE, calls |-> 0]

Size(table) == Cardinality(DOMAIN table)

\* bucket index = h mod N, with the key as its own hash
Bucket(k, n) == k % n

\* the first record of a chain that belongs to bucket d of a table of n buckets
RECURSIVE ChainStart(_, _, _, _)
ChainStart(lg, address, d, n) ==
  IF address = 0 \/ address \notin DOMAIN lg THEN 0
  ELSE IF Bucket(lg[address].key, n) = d THEN address
  ELSE ChainStart(lg, lg[address].previous_address, d, n)

\* rehash source bucket b into the destination buckets b and b + N
Split(lg, table, next, b) ==
  [d \in DOMAIN next |->
     IF Bucket(d, Size(table)) = b THEN ChainStart(lg, table[b], d, Size(next)) ELSE next[d]]

\* the entry an operation on key k works on: the destination bucket once the
\* source bucket is rehashed, the source bucket until then
Migrated(gr, table, k) == gr.phase = "in_progress" /\ Bucket(k, Size(table)) \in gr.done

Entry(gr, table, k) ==
  IF Migrated(gr, table, k) THEN gr.next[Bucket(k, Size(gr.next))]
  ELSE table[Bucket(k, Size(table))]

\* the engine state as the operation on key k finds it
EngineFor(k) == [Engine EXCEPT !.index = [t \in Tags |-> Entry(sess, index, k)]]

IndexLookup(k) == Lookup(EngineFor(k), k)

InitIndex ==
  /\ stype \in GrowHandles \cup {StoreU64, StorePerson}
  /\ log = <<>>
  /\ index = [b \in 0..(NumBuckets - 1) |-> 0]
  /\ tail_address = kBeginAddress
  /\ read_only_address = kBeginAddress
  /\ safe_read_only_address = kBeginAddress
  /\ head_address = kBeginAddress
  /\ begin_address = kBeginAddress
  /\ iter = NoIterator
  /\ out = 0
  /\ sess = NoGrow
  /\ res = NoResult
  /\ hist = [size |-> NumBuckets, address |-> [k \in ScanKeys |-> 0]]

GrowInput == CHOOSE input \in Inputs(stype) : TRUE

G_Upsert(k) ==
  LET r == faster_upsert(EngineFor(k), stype, k, GrowInput)
      entry == r.st.index[Tag(k)]
  IN /\ r.appended => HasRoom
     /\ log' = r.st.log
     /\ tail_address' = r.st.tail
     /\ IF Migrated(sess, index, k)
          THEN /\ sess' = [sess EXCEPT !.next[Bucket(k, Size(sess.next))] = entry]
               /\ index' = index
          ELSE /\ index' = [index EXCEPT ![Bucket(k, Size(index))] = entry]
               /\ sess' = sess
     /\ hist' = [hist EXCEPT !.address[k] = r.addr]
     /\ UNCHANGED <<stype, read_only_address, safe_read_only_address, head_address,
                    begin_address, iter, out, res>>

\* faster_grow_index: GrowIndex of the store for the two handle types of the
\* switch; for any other handle the function ends without a return statement
\* and the caller reads an indeterminate bool
G_GrowIndex(garbage) ==
  /\ sess.phase = "rest"
  /\ sess.calls = 0
  /\ IF stype \in GrowHandles
       THEN sess' = [sess EXCEPT !.phase = "in_progress",
                                 !.next = [d \in 0..(2 * Size(index) - 1) |-> 0],
                                 !.done = {}, !.ret = TRUE, !.calls = 1]
       ELSE sess' = [sess EXCEPT !.ret = garbage, !.calls = 1]
  /\ hist' = [hist EXCEPT !.size = Size(index)]
  /\ UNCHANGED <<stype, log, index, anchors, iter, out, res>>

\* a thread rehashes one source bucket
G_Rehash(b) ==
  /\ sess.phase = "in_progress"
  /\ b \in DOMAIN index
  /\ b \notin sess.done
  /\ sess' = [sess EXCEPT !.next = Split(log, index, sess.next, b), !.done = @ \cup {b}]
  /\ UNCHANGED <<stype, log, index, anchors, iter, out, res, hist>>

\* every source bucket is rehashed: the new table replaces the old one
G_Complete ==
  /\ sess.phase = "in_progress"
  /\ sess.done = DOMAIN index
  /\ index' = sess.next
  /\ sess' = [sess EXCEPT !.phase = "rest", !.next = <<>>, !.done = {}]
  /\ UNCHANGED <<stype, log, anchors, iter, out, res, hist>>

NextIndex ==
  \/ \E k \in ScanKeys : G_Upsert(k)
  \/ \E garbage \in BOOLEAN : G_GrowIndex(garbage)
  \/ \E b \in DOMAIN index : G_Rehash(b)
  \/ G_Complete
  \/ ShiftReadOnly

SpecIndex == InitIndex /\ [][NextIndex]_vars

-----------------------------------------------------------------------------
(* RMWs through the contexts of the u64, u64-pair, ten-elements and          *)
(* auction-bids stores, one session, one key                                  *)

\* RMWs issued in one run: more than the ten slots of the ring
MaxRmws == 12

Contexts(ty) ==
  CASE ty = StoreU64 -> {"RmwU64Context", "RmwDecreaseU64Context"}
    [] ty = StoreU64Pair -> {"RmwU64PairContext"}
    [] ty = StoreTenElements -> {"RmwTenElementsContext"}
    [] OTHER -> {"RmwAuctionBidsAuctionContext", "RmwAuctionBidsBidContext"}

\* the RMWs of one run: the ring of ten elements is driven past its wrap, the
\* other stores a few records far
Rmws(ty) == IF ty = StoreTenElements THEN MaxRmws ELSE MaxRecords + 1

\* the modification of the RMW issued after n others; the ring takes a different
\* one each time, so that its slots tell the modifications apart
Modifications(ty, n) ==
  CASE ty = StoreU64Pair -> {[left |-> 1, right |-> 0], [left |-> 0, right |-> 2]}
    [] ty = StoreTenElements -> {n + 1}
    [] OTHER -> 1..2

\* what a word and the tail_ byte of a record of an evicted page may hold
StaleWords == {0, 7}

StaleTails == {0, 3}

\* the bytes a newly allocated record lies in: zeroes in a page frame used for the
\* first time, the bytes of an evicted page in a frame of the circular buffer
\* that is used again. No context and no constructor runs over the value
\* before RmwInitial does.
Memory(ty) ==
  CASE ty = StoreTenElements ->
         {TenElementsValue(0, t, [i \in 1..TenSlots |-> w]) : t \in StaleTails, w \in StaleWords}
    [] ty = StoreAuctionBids -> {AuctionBidsValue(w, 0, <<>>) : w \in StaleWords}
    [] OTHER -> {ZeroValue(ty)}

\* Rmw of the engine with a context ctx, on a record allocated in memory
RmwWith(st, ty, ctx, k, m, memory) ==
  LET a == Lookup(st, k) IN
  IF a = 0
    THEN Result(CreateRecord(st, ty, k, CtxInitial(ctx, m, memory), FALSE), Ok, "initial",
                NewAddress(st, ty, k, CtxInitial(ctx, m, memory)), NoValue, TRUE)
  ELSE IF a < st.head
    THEN Result(st, Pending, "pending", a, NoValue, FALSE)
  ELSE IF st.log[a].tombstone
    THEN Result(CreateRecord(st, ty, k, CtxInitial(ctx, m, memory), FALSE), Ok, "initial",
                NewAddress(st, ty, k, CtxInitial(ctx, m, memory)), NoValue, TRUE)
  ELSE IF Mutable(st, a) /\ CtxAtomic(ctx, m, st.log[a].value).ok
    THEN Result([st EXCEPT !.log[a].value = CtxAtomic(ctx, m, st.log[a].value).value],
                Ok, "atomic", a, NoValue, FALSE)
  ELSE Result(CreateRecord(st, ty, k, CtxCopy(ctx, m, st.log[a].value), FALSE), Ok, "copy",
              NewAddress(st, ty, k, CtxCopy(ctx, m, st.log[a].value)), NoValue, TRUE)

\* sess remembers the RMWs issued: their number, their modifications, and for
\* the last one its context, the value it found and the memory of its record
InitCtx ==
  /\ stype \in {StoreU64, StoreU64Pair, StoreTenElements, StoreAuctionBids}
  /\ InitEngine
  /\ iter = NoIterator
  /\ out = 0
  /\ sess = [n |-> 0, mods |-> <<>>, ctx |-> "none", old |-> ZeroValue(stype),
             memory |-> ZeroValue(stype)]
  /\ res = NoResult
  /\ hist = InitHist

\* the value of the key the RMWs work on
CtxValue == log[Lookup(Engine, CloseKey)].value

\* faster_rmw_u64, faster_rmw_decrease_u64, faster_rmw_u64_pair,
\* faster_rmw_ten_elements, faster_rmw_auction_bids_auction, faster_rmw_auction_bids_bid
X_Rmw(ctx, m, memory) ==
  LET a == Lookup(Engine, CloseKey)
      r == RmwWith(Engine, stype, ctx, CloseKey, m, memory)
  IN /\ sess.n < Rmws(stype)
     /\ (ctx = "RmwU64Context" /\ a # 0) => log[a].value.value_ + m <= MaxU64
     /\ r.appended => HasRoom
     /\ log' = r.st.log
     /\ index' = r.st.index
     /\ tail_address' = r.st.tail
     /\ res' = [NoResult EXCEPT !.op = "rmw", !.key = CloseKey, !.status = r.status,
                                !.path = r.path, !.addr = r.addr]
     /\ sess' = [n |-> sess.n + 1, mods |-> Append(sess.mods, m), ctx |-> ctx,
                 old |-> IF a = 0 THEN ZeroValue(stype) ELSE log[a].value,
                 memory |-> memory]
     /\ UNCHANGED <<stype, read_only_address, safe_read_only_address, head_address,
                    begin_address, iter, out, hist>>

\* faster_read_ten_elements and the reads of the other stores
X_Read ==
  LET r == faster_read(Engine, stype, CloseKey)
  IN /\ res' = [NoResult EXCEPT !.op = "read", !.key = CloseKey, !.status = r.status,
                                !.out = r.out, !.path = r.path, !.addr = r.addr]
     /\ UNCHANGED <<stype, log, index, anchors, iter, out, sess, hist>>

X_ShiftReadOnly ==
  /\ read_only_address < tail_address
  /\ read_only_address' = tail_address
  /\ safe_read_only_address' = tail_address
  /\ UNCHANGED <<stype, log, index, tail_address, head_address, begin_address, iter, out,
                 sess, res, hist>>

NextCtx ==
  \/ \E ctx \in Contexts(stype) : \E m \in Modifications(stype, sess.n) : \E memory \in Memory(stype) :
       X_Rmw(ctx, m, memory)
  \/ X_Read
  \/ X_ShiftReadOnly

SpecCtx == InitCtx /\ [][NextCtx]_vars

-----------------------------------------------------------------------------
(* The byte-buffer RMW, retried: one session runs an RMW through RmwContext   *)
(* step by step while another session upserts the same key                    *)

\* Upserts of the other session in one run
MaxRetryUpserts == 2

\* RmwContext: the fields an RMW carries from one attempt to the next
NewRmwContext(modification) == [modification_ |-> modification, new_length_ |-> 0]

\* the bytes of a value, as cb_ is handed them: buffer() and length_
Current(value) == SubSeq(value.buffer, 1, value.length_)

\* cb_(current, length, modification, modification_length, dst): the length of the merge
MergedLength(ctx, value) == Len(rmw_callback(Current(value), ctx.modification_))

\* value_size(old_value): new_length_ is computed only while it is 0
RmwContext_value_size(ctx, old_value) ==
  LET nl == IF ctx.new_length_ = 0 THEN MergedLength(ctx, old_value) ELSE ctx.new_length_
  IN [ctx |-> [ctx EXCEPT !.new_length_ = nl], size |-> SizeofValue + nl]

RmwContext_RmwInitial(ctx) ==
  BytesValue(0, SizeofValue + Len(ctx.modification_), Len(ctx.modification_),
             ctx.modification_)

RmwContext_RmwCopy(ctx, old_value) ==
  LET merged == rmw_callback(Current(old_value), ctx.modification_)
  IN BytesValue(0, SizeofValue + Len(merged), Len(merged), merged)

\* cb_ writes the merge from the start of the buffer, however long the buffer is
WriteMerged(buf, merged) ==
  [i \in 1..(IF Len(merged) > Len(buf) THEN Len(merged) ELSE Len(buf)) |->
     IF i <= Len(merged) THEN merged[i] ELSE buf[i]]

\* RmwAtomic with no other thread holding the lock: a try_lock that fails has
\* found the record replaced
RmwContext_RmwAtomic(ctx, value) ==
  LET l == try_lock(value.gen_lock)
      nl == IF ctx.new_length_ = 0 THEN MergedLength(ctx, value) ELSE ctx.new_length_
      c == [ctx EXCEPT !.new_length_ = nl]
  IN IF ~l.acquired
       THEN [ok |-> FALSE, checked |-> FALSE, ctx |-> ctx, value |-> value]
     ELSE IF value.size_ < SizeofValue + nl
       THEN [ok |-> FALSE, checked |-> TRUE, ctx |-> c,
             value |-> [value EXCEPT !.gen_lock = unlock(l.control, TRUE)]]
     ELSE [ok |-> TRUE, checked |-> TRUE, ctx |-> c,
           value |-> [value EXCEPT
                        !.buffer = WriteMerged(@, rmw_callback(Current(value),
                                                               ctx.modification_)),
                        !.length_ = nl,
                        !.gen_lock = unlock(l.control, FALSE)]]

RetryInputs == {<<2>>, <<1, 1>>, <<2, 2, 2, 2>>}

RetryModifications == {<<3>>, <<3, 3>>}

\* sess is the RMW in flight; hist remembers what its last write stored and
\* checked, and what the callback makes of the record it wrote to
NoRmw == [pc |-> "idle", ctx |-> NewRmwContext(<<>>), entry |-> 0, addr |-> 0, new |-> 0,
          left |-> MaxOps, upserts |-> MaxRetryUpserts]

NoMerge == [by |-> "none", stored |-> 0, checked |-> 0, merged |-> 0, capacity |-> 0,
            retried |-> FALSE]

InitRetry ==
  /\ stype = StoreBytes
  /\ InitEngine
  /\ iter = NoIterator
  /\ out = 0
  /\ sess = NoRmw
  /\ res = NoResult
  /\ hist = [last |-> NoMerge, tries |-> 0]

RetryFrame ==
  UNCHANGED <<stype, safe_read_only_address, head_address, begin_address, iter, out>>

\* faster_rmw: a new RmwContext, and the engine's Rmw with it
Y_Call(modification) ==
  /\ sess.pc = "idle"
  /\ sess.left > 0
  /\ sess' = [sess EXCEPT !.pc = "lookup", !.ctx = NewRmwContext(modification),
                          !.left = @ - 1]
  /\ hist' = [hist EXCEPT !.tries = 0]
  /\ UNCHANGED <<log, index, tail_address, read_only_address, res>>
  /\ RetryFrame

\* the lookup of an attempt, the first or a retry, with the same context
Y_Lookup ==
  /\ sess.pc = "lookup"
  /\ LET a == Lookup(Engine, TheKey)
     IN sess' = [sess EXCEPT !.entry = FindEntry(Engine, TheKey),
                             !.addr = a,
                             !.pc = IF a = 0 \/ log[a].tombstone THEN "initial"
                                    ELSE IF Mutable(Engine, a) THEN "atomic" ELSE "copy"]
  /\ hist' = [hist EXCEPT !.tries = @ + 1]
  /\ UNCHANGED <<log, index, tail_address, read_only_address, res>>
  /\ RetryFrame

Merge(by, stored, checked, value) ==
  [by |-> by, stored |-> stored, checked |-> checked,
   merged |-> MergedLength(sess.ctx, value), capacity |-> value.size_,
   retried |-> hist.tries > 1]

\* the in-place path: RmwAtomic on the record found; on false the copy path
Y_RmwAtomic ==
  /\ sess.pc = "atomic"
  /\ gen_number(log[sess.addr].value.gen_lock) < Pow2(GenBits) - 1
  /\ LET value == log[sess.addr].value
         r == RmwContext_RmwAtomic(sess.ctx, value)
     IN /\ log' = [log EXCEPT ![sess.addr].value = r.value]
        /\ sess' = [sess EXCEPT !.ctx = r.ctx, !.pc = IF r.ok THEN "idle" ELSE "copy"]
        /\ hist' = [hist EXCEPT !.last =
                      IF r.ok THEN Merge("atomic", r.value.length_,
                                         SizeofValue + r.ctx.new_length_, value)
                      ELSE @]
        /\ res' = IF r.ok THEN [NoResult EXCEPT !.op = "rmw", !.key = TheKey,
                                                !.path = "atomic", !.addr = sess.addr]
                  ELSE res
  /\ UNCHANGED <<index, tail_address, read_only_address>>
  /\ RetryFrame

\* the copy path and the path of an absent key: a record of value_size bytes is
\* allocated and filled in by RmwCopy or RmwInitial; nothing points to it yet
Y_Create ==
  /\ sess.pc \in {"initial", "copy"}
  /\ Cardinality(DOMAIN log) < MaxConcRecords
  /\ LET old == log[sess.addr].value
         vs == IF sess.pc = "initial"
                 THEN [ctx |-> sess.ctx, size |-> SizeofValue + Len(sess.ctx.modification_)]
                 ELSE RmwContext_value_size(sess.ctx, old)
         value == IF sess.pc = "initial" THEN RmwContext_RmwInitial(vs.ctx)
                  ELSE RmwContext_RmwCopy(vs.ctx, old)
         al == Allocate(tail_address,
                        HeaderBytes + Pad8(key_size(stype, TheKey)) + Pad8(vs.size))
     IN /\ log' = log @@ (al.address :> Record(FALSE, FALSE, sess.entry, TheKey, value))
        /\ tail_address' = al.tail
        /\ sess' = [sess EXCEPT !.ctx = vs.ctx, !.pc = "cas", !.new = al.address]
        /\ hist' = [hist EXCEPT !.last =
                      IF sess.pc = "copy" THEN Merge("copy", value.length_, vs.size, old)
                      ELSE @]
  /\ UNCHANGED <<index, read_only_address, res>>
  /\ RetryFrame

\* the compare-and-swap of the index entry; on a miss the new record is marked
\* invalid and the whole operation is retried
Y_Cas ==
  /\ sess.pc = "cas"
  /\ IF index[Tag(TheKey)] = sess.entry
       THEN /\ index' = [index EXCEPT ![Tag(TheKey)] = sess.new]
            /\ sess' = [sess EXCEPT !.pc = "idle"]
            /\ res' = [NoResult EXCEPT !.op = "rmw", !.key = TheKey, !.path = "copy",
                                       !.addr = sess.new]
            /\ UNCHANGED log
       ELSE /\ log' = [log EXCEPT ![sess.new].invalid = TRUE]
            /\ sess' = [sess EXCEPT !.pc = OnCasMiss(sess).pc]
            /\ UNCHANGED <<index, res>>
  /\ UNCHANGED <<tail_address, read_only_address, hist>>
  /\ RetryFrame

\* an Upsert of the other session, from its call to its return
Y_Upsert(input) ==
  LET a == Lookup(Engine, TheKey)
      r == faster_upsert(Engine, stype, TheKey, input)
  IN /\ sess.upserts > 0
     /\ (a # 0) => gen_number(log[a].value.gen_lock) < Pow2(GenBits) - 1
     /\ r.appended => Cardinality(DOMAIN log) < MaxConcRecords
     /\ log' = r.st.log
     /\ index' = r.st.index
     /\ tail_address' = r.st.tail
     /\ sess' = [sess EXCEPT !.upserts = @ - 1]
     /\ UNCHANGED <<read_only_address, res, hist>>
     /\ RetryFrame

Y_ShiftReadOnly ==
  /\ sess.pc = "idle"
  /\ read_only_address < tail_address
  /\ read_only_address' = tail_address
  /\ UNCHANGED <<log, index, tail_address, sess, res, hist>>
  /\ RetryFrame

NextRetry ==
  \/ \E modification \in RetryModifications : Y_Call(modification)
  \/ Y_Lookup
  \/ Y_RmwAtomic
  \/ Y_Create
  \/ Y_Cas
  \/ \E input \in RetryInputs : Y_Upsert(input)
  \/ Y_ShiftReadOnly

SpecRetry == InitRetry /\ [][NextRetry]_vars

-----------------------------------------------------------------------------
(* Upserts whose context owns its input: two sessions upsert one key, and    *)
(* each input buffer is followed from the call to its deallocation           *)

\* the stores whose Put and PutAtomic deallocate the input themselves; the
\* byte-buffer context leaves it to its destructor
FreesInPut == {StorePerson, StoreAuctions}

IdleOwner == [pc |-> "idle", input |-> <<>>, entry |-> 0, addr |-> 0, new |-> 0,
              left |-> MaxOps, buffer |-> "none", frees |-> 0]

InitOwned ==
  /\ stype \in {StoreBytes, StorePerson, StoreAuctions}
  /\ InitEngine
  /\ iter = NoIterator
  /\ out = 0
  /\ sess = [t \in Sessions |-> IdleOwner]
  /\ res = NoResult
  /\ hist = [read_freed |-> FALSE]

\* the bytes of a buffer that was deallocated and handed out again
Scrubbed(ty, input) ==
  IF ty = StorePerson
    THEN [name |-> [i \in 1..Len(input.name) |-> 0], city |-> [i \in 1..Len(input.city) |-> 0],
          state |-> [i \in 1..Len(input.state) |-> 0]]
    ELSE [i \in 1..Len(input) |-> 0]

\* what a memcpy from the input buffer reads: its bytes while the context owns
\* it, those or any others once it has been deallocated
ReadInput(ty, s) ==
  IF s.buffer = "freed" THEN {s.input, Scrubbed(ty, s.input)} ELSE {s.input}

\* deallocate_vec, deallocate_u64_vec, deallocate_string
Deallocate(s) == [s EXCEPT !.buffer = "freed", !.frees = @ + 1]

\* faster_upsert, faster_upsert_person, faster_upsert_auctions: the context takes
\* the caller's buffer
O_Call(t, input) ==
  /\ sess[t].pc = "idle"
  /\ sess[t].left > 0
  /\ sess' = [sess EXCEPT ![t] = [IdleOwner EXCEPT !.pc = "lookup", !.input = input,
                                                 !.left = sess[t].left - 1,
                                                 !.buffer = "owned"]]
  /\ UNCHANGED <<log, index, tail_address, read_only_address, res, hist>>
  /\ ConcFrame

O_Lookup(t) ==
  /\ sess[t].pc = "lookup"
  /\ LET a == Lookup(Engine, TheKey)
         inplace == a # 0 /\ Mutable(Engine, a) /\ ~log[a].tombstone
     IN sess' = [sess EXCEPT ![t].entry = FindEntry(Engine, TheKey),
                             ![t].addr = a,
                             ![t].pc = IF inplace THEN "inplace" ELSE "create"]
  /\ UNCHANGED <<log, index, tail_address, read_only_address, res, hist>>
  /\ ConcFrame

\* the shim returns: the context on its stack is destroyed, and ~UpsertContext
\* deallocates an input_ that is not NULL
Return(ty, s) ==
  [(IF ty = StoreBytes THEN Deallocate(s) ELSE s) EXCEPT !.pc = "idle"]

\* PutAtomic on the record found; on false the operation appends a record
O_PutAtomic(t) ==
  /\ sess[t].pc = "inplace"
  /\ (stype = StoreBytes) =>
       gen_number(log[sess[t].addr].value.gen_lock) < Pow2(GenBits) - 1
  /\ \E bytes \in ReadInput(stype, sess[t]) :
       LET r == PutAtomic(stype, bytes, log[sess[t].addr].value)
           done == IF r.ok /\ stype \in FreesInPut THEN Deallocate(sess[t]) ELSE sess[t]
       IN /\ log' = [log EXCEPT ![sess[t].addr].value = r.value]
          /\ sess' = [sess EXCEPT ![t] = IF r.ok THEN Return(stype, done)
                                         ELSE [done EXCEPT !.pc = "create"]]
          /\ hist' = [hist EXCEPT !.read_freed = @ \/ (r.ok /\ sess[t].buffer = "freed")]
          /\ res' = IF r.ok THEN [NoResult EXCEPT !.op = "upsert", !.key = TheKey,
                                                  !.path = "putatomic", !.addr = sess[t].addr]
                    ELSE res
  /\ UNCHANGED <<index, tail_address, read_only_address>>
  /\ ConcFrame

\* a record of value_size bytes is allocated and Put fills it in
O_Put(t) ==
  /\ sess[t].pc = "create"
  /\ Cardinality(DOMAIN log) < MaxConcRecords
  /\ \E bytes \in ReadInput(stype, sess[t]) :
       LET rec == Record(FALSE, FALSE, sess[t].entry, TheKey, Put(stype, bytes))
           al == Allocate(tail_address, allocated_size(stype, rec))
           done == IF stype \in FreesInPut THEN Deallocate(sess[t]) ELSE sess[t]
       IN /\ log' = log @@ (al.address :> rec)
          /\ tail_address' = al.tail
          /\ sess' = [sess EXCEPT ![t] = [done EXCEPT !.pc = "cas", !.new = al.address]]
  /\ hist' = [hist EXCEPT !.read_freed = @ \/ sess[t].buffer = "freed"]
  /\ UNCHANGED <<index, read_only_address, res>>
  /\ ConcFrame

\* the compare-and-swap of the index entry; on a miss the new record is marked
\* invalid and the whole operation is retried with the same context
O_Cas(t) ==
  /\ sess[t].pc = "cas"
  /\ IF index[Tag(TheKey)] = sess[t].entry
       THEN /\ index' = [index EXCEPT ![Tag(TheKey)] = sess[t].new]
            /\ sess' = [sess EXCEPT ![t] = Return(stype, sess[t])]
            /\ res' = [NoResult EXCEPT !.op = "upsert", !.key = TheKey, !.path = "append",
                                       !.addr = sess[t].new]
            /\ UNCHANGED log
       ELSE /\ log' = [log EXCEPT ![sess[t].new].invalid = TRUE]
            /\ sess' = [sess EXCEPT ![t].pc = OnCasMiss(sess[t]).pc]
            /\ UNCHANGED <<index, res>>
  /\ UNCHANGED <<tail_address, read_only_address, hist>>
  /\ ConcFrame

O_ShiftReadOnly ==
  /\ AllIdle
  /\ read_only_address < tail_address
  /\ read_only_address' = tail_address
  /\ UNCHANGED <<log, index, tail_address, sess, res, hist>>
  /\ ConcFrame

NextOwned ==
  \/ \E t \in Sessions : \E input \in Inputs(stype) : O_Call(t, input)
  \/ \E t \in Sessions : O_Lookup(t)
  \/ \E t \in Sessions : O_PutAtomic(t)
  \/ \E t \in Sessions : O_Put(t)
  \/ \E t \in Sessions : O_Cas(t)
  \/ O_ShiftReadOnly

SpecOwned == InitOwned /\ [][NextOwned]_vars

-----------------------------------------------------------------------------
(* RMWs of the auctions store with a vector of auctions, one session *)

\* the vectors faster_rmw_auctions is called with
AuctionVectors == {<<1>>, <<2, 2>>, <<1, 2, 1>>}

\* where the caller's vector lies, and what the word behind the context holds
Pointers == {1000, 2000}

Beyond == {<<0>>, <<9>>}

\* RmwAuctionsContext: modification_ (a pointer, here with the vector it points
\* to) and length_, and the words of the stack that follow the object
RmwAuctionsContext(m, pointer, beyond) ==
  [modification_ |-> pointer, vector |-> m, length_ |-> Len(m), beyond |-> beyond]

\* value_size(): sizeof(value_t) + sizeof(uint64_t), whatever length_ is
RmwAuctionsContext_value_size(ctx) == SizeofU64 + SizeofU64

\* value_size(old_value)
RmwAuctionsContext_value_size_old(ctx, old_value) ==
  SizeofU64 + (old_value.length_ + ctx.length_) * SizeofU64

\* RmwInitial: memcpy(value.buffer(), &modification_, length_ * sizeof(uint64_t))
\* copies from the address of the member modification_: the pointer itself,
\* then length_, then what follows the context
RmwAuctionsContext_RmwInitial(ctx) ==
  AuctionsValue(ctx.length_,
                SubSeq(<<ctx.modification_, ctx.length_>> \o ctx.beyond, 1, ctx.length_))

RmwAuctionsContext_RmwCopy(ctx, old_value) ==
  AuctionsValue(old_value.length_ + ctx.length_,
                SubSeq(old_value.buffer, 1, old_value.length_) \o ctx.vector)

\* sess remembers the last RMW: its vector, the bytes it asked the allocator
\* for and the bytes it wrote into the value
InitAuctions ==
  /\ stype = StoreAuctions
  /\ InitEngine
  /\ iter = NoIterator
  /\ out = 0
  /\ sess = [vector |-> <<>>, requested |-> 0, written |-> 0]
  /\ res = NoResult
  /\ hist = InitHist

\* faster_rmw_auctions: RmwAtomic returns false, so the RMW appends a record,
\* with RmwInitial for a key that has no live record and with RmwCopy otherwise
A_RmwAuctions(k, m, pointer, beyond) ==
  LET ctx == RmwAuctionsContext(m, pointer, beyond)
      a == Lookup(Engine, k)
      initial == a = 0 \/ log[a].tombstone
      requested == IF initial THEN RmwAuctionsContext_value_size(ctx)
                   ELSE RmwAuctionsContext_value_size_old(ctx, log[a].value)
      value == IF initial THEN RmwAuctionsContext_RmwInitial(ctx)
               ELSE RmwAuctionsContext_RmwCopy(ctx, log[a].value)
      al == Allocate(tail_address, HeaderBytes + Pad8(key_size(stype, k)) + Pad8(requested))
  IN /\ HasRoom
     /\ log' = log @@ (al.address :> Record(FALSE, FALSE, FindEntry(Engine, k), k, value))
     /\ index' = [index EXCEPT ![Tag(k)] = al.address]
     /\ tail_address' = al.tail
     /\ res' = [NoResult EXCEPT !.op = "rmw", !.key = k,
                                !.path = IF initial THEN "initial" ELSE "copy",
                                !.addr = al.address]
     /\ sess' = [vector |-> m, requested |-> requested,
                 written |-> SizeofU64 + value.length_ * SizeofU64]
     /\ UNCHANGED <<stype, read_only_address, safe_read_only_address, head_address,
                    begin_address, iter, out, hist>>

\* faster_delete_auctions
A_Delete(k) ==
  LET r == faster_delete(Engine, stype, k)
  IN /\ HasRoom
     /\ Lookup(Engine, k) # 0
     /\ log' = r.st.log
     /\ index' = r.st.index
     /\ tail_address' = r.st.tail
     /\ res' = [NoResult EXCEPT !.op = "delete", !.key = k, !.path = r.path, !.addr = r.addr]
     /\ UNCHANGED <<stype, read_only_address, safe_read_only_address, head_address,
                    begin_address, iter, out, sess, hist>>

NextAuctions ==
  \/ \E k \in Keys : \E m \in AuctionVectors : \E pointer \in Pointers : \E beyond \in Beyond :
       A_RmwAuctions(k, m, pointer, beyond)
  \/ \E k \in Keys : A_Delete(k)

SpecAuctions == InitAuctions /\ [][NextAuctions]_vars

-----------------------------------------------------------------------------
(* Properties of the point operations *)

LastWrite == hist.lastw[res.key]

\* the value of the record the last Read found
RecordRead == ValueOf(stype, log[res.addr].value)

\* C3: read-your-own-writes in one session. A Read of k whose latest write on k
\* is an Upsert(k, v) that returned Ok returns Ok and v, whichever of the
\* first-insert (Put), in-place (PutAtomic) or append paths the Upsert took.
C3_ReadYourOwnWrites ==
  (res.op = "read" /\ LastWrite.op = "upsert") =>
     /\ res.status = Ok
     /\ RecordRead = LastWrite.val
     /\ (stype # StoreA64 => res.out = LastWrite.val)

\* a Read after an in-place Upsert of a shorter value: the buffer still holds a
\* byte of the longer one behind the new length
C3_Witness ==
  /\ stype = StoreBytes
  /\ res.op = "read" /\ res.status = Ok /\ res.path = "getatomic"
  /\ LastWrite.op = "upsert" /\ LastWrite.before = "upsert"
  /\ res.out = LastWrite.val
  /\ Len(log[res.addr].value.buffer) > res.out.length

\* C5: basic Upsert/RMW/Read semantics. An RMW returns Ok (0); a Read after an
\* RMW with increment d finds v+d where v was the value before (d alone where
\* the key had none); a Read of a never-written key returns NotFound (2) and a
\* Read of a written key returns Ok (0).
C5_BasicSemantics ==
  /\ res.op = "rmw" => (res.status = Ok /\ res.status = 0)
  /\ (res.op = "read" /\ LastWrite.op = "rmw") =>
        /\ res.status = Ok
        /\ RecordRead = LastWrite.val
        /\ (stype = StoreU64 => res.out = LastWrite.val)
  /\ (res.op = "read" /\ LastWrite.op = "none") => (res.status = NotFound /\ res.status = 2)
  /\ (res.op = "read" /\ LastWrite.op \in {"upsert", "rmw"}) => res.status = 0

\* a Read that finds the sum left by a copying RMW on an Upserted key
C5_Witness ==
  /\ stype = StoreA64
  /\ res.op = "read" /\ res.status = 0
  /\ LastWrite.op = "rmw" /\ LastWrite.before = "upsert"
  /\ log[res.addr].previous_address # 0 /\ ~log[log[res.addr].previous_address].tombstone
  /\ log[log[res.addr].previous_address].key = res.key
  /\ RecordRead = LastWrite.val /\ LastWrite.val > 2

\* C6: Delete never fails due to absence and hides the key. Delete returns Ok
\* with or without a prior record, and a Read whose latest write on the key is
\* a Delete returns NotFound.
C6_DeleteHides ==
  /\ res.op = "delete" => res.status = Ok
  /\ (res.op = "read" /\ LastWrite.op = "delete") =>
        (res.status = NotFound /\ res.out = NoValue)

\* a Read after the Delete of a key that had no record: the tombstone is the key's only record
C6_Witness ==
  /\ res.op = "read" /\ res.status = NotFound /\ res.path = "tombstone"
  /\ LastWrite.op = "delete" /\ LastWrite.before = "none"
  /\ Cardinality({a \in DOMAIN log : log[a].key = res.key}) = 1

\* the tombstone the chain of the record at `address` leads to
TombstoneBehind(address) ==
  TraceBackForKeyMatch(log, log[address].previous_address, log[address].key, begin_address)

\* C7: Upsert after Delete. The Upsert never writes the tombstone in place: it
\* appends a new record whose chain leads to the untouched tombstone, and a
\* following Read returns the Upsert's value.
C7_UpsertAfterDelete ==
  /\ (res.op = "upsert" /\ res.before = "delete") =>
        /\ res.status = Ok /\ res.path = "append"
        /\ ~log[res.addr].tombstone
        /\ TombstoneBehind(res.addr) # 0
        /\ TombstoneBehind(res.addr) < res.addr
        /\ log[TombstoneBehind(res.addr)].tombstone
        /\ log[TombstoneBehind(res.addr)].value = ZeroValue(stype)
  /\ (res.op = "read" /\ LastWrite.op = "upsert" /\ LastWrite.before = "delete") =>
        /\ res.status = Ok
        /\ RecordRead = LastWrite.val
        /\ log[TombstoneBehind(res.addr)].tombstone

\* a Read of a key that was upserted, deleted and upserted again, with the
\* tombstone still in the mutable region when the second Upsert ran
C7_Witness ==
  /\ res.op = "read" /\ res.status = Ok
  /\ LastWrite.op = "upsert" /\ LastWrite.before = "delete"
  /\ RecordRead = LastWrite.val
  /\ read_only_address = kBeginAddress
  /\ Cardinality({a \in DOMAIN log : log[a].key = res.key}) = 3

-----------------------------------------------------------------------------
(* Properties of the in-memory scan *)

\* the record a plain sequence of Upserts of distinct keys is to yield at position n
Expected(n) == [key |-> hist.order[n].key, value |-> hist.order[n].value]

\* C8: scan completeness and order. After N Upserts of distinct keys into a
\* fresh store and nothing else, the scan yields the N keys in insertion order,
\* each with the value Put wrote, and then GetNext returns false.
C8_ScanCompleteInOrder ==
  (hist.plain /\ iter.pc = "idle") =>
     /\ iter.ret \in {"none", "true", "false"}
     /\ iter.ret = "true" => (hist.count <= Len(hist.order) /\ hist.yielded = Expected(hist.count))
     /\ iter.ret = "false" => hist.count = Len(hist.order)

\* C9: iterator snapshot. Whenever GetNext yields a record that existed when
\* the iterator was obtained, the value seen through the iterator record is the
\* value that record held at that moment, whatever was upserted since.
C9_IteratorSnapshot ==
  (iter.ret = "true" /\ out \in DOMAIN hist.snap) =>
     hist.yielded.value = ValueOf(stype, hist.snap[out].value)

\* C10: the scan iterator never yields an invalid or tombstone record, and
\* never stays on one: GetNext returns true only for a record that is neither.
C10_NoInvalidOrTombstone ==
  /\ iter.ret # "hang"
  /\ (iter.ret = "true" /\ out \in DOMAIN log) => (~log[out].invalid /\ ~log[out].tombstone)

-----------------------------------------------------------------------------
(* Properties of the readers and writers of one record *)

\* C1: no torn reads. The (length, bytes) pair GetAtomic hands to the read
\* callback is a value the record held at one instant: the value it was
\* created with or the input of one PutAtomic, never a mix of two.
C1_NoTornRead ==
  res.op = "read" => res.out \in hist.versions

-----------------------------------------------------------------------------
(* Properties of concurrent sessions *)

\* the value a Read of k finds once no operation is in flight
Stored(k) == ValueOf(stype, log[Lookup(Engine, k)].value)

AllReturned == \A t \in Sessions : sess[t].pc = "idle" /\ sess[t].left = 0

\* C2: concurrent RMW loses no update. Once every session has completed its
\* '+1' RMWs on the key, the key holds the number of RMWs performed.
C2_NoLostUpdate ==
  AllReturned =>
     (Lookup(Engine, TheKey) # 0 /\ Stored(TheKey) = Cardinality(Sessions) * MaxOps)

\* the last Upsert of each session that upserted k
LastUpserts(k) == {hist.last[t][k] : t \in Sessions} \ {0}

\* C4: no Upsert that returned Ok is lost to a race. Once the sessions'
\* Upserts have completed, every upserted key holds the value of the last
\* Upsert to it of one of the sessions, also where an Upsert's compare-and-swap
\* on the shared index entry missed and the Upsert started over.
C4_NoLostUpsert ==
  AllIdle => \A k \in Keys :
     LastUpserts(k) # {} => (Lookup(Engine, k) # 0 /\ Stored(k) \in LastUpserts(k))

\* both sessions upserted different keys of one bucket at once, one of them
\* missed its compare-and-swap and left an invalid record, and both keys are there
C4_Witness ==
  /\ AllReturned
  /\ \E a \in DOMAIN log : log[a].invalid
  /\ \A k \in Keys : LastUpserts(k) # {} /\ Stored(k) \in LastUpserts(k)

-----------------------------------------------------------------------------
(* Properties of the scan under anchor advances *)

\* a step that is a call of GetNext: no other step leaves the store, the epochs
\* and the session's last result as they are
GetNextStep ==
  iter.pc = "idle" /\ iter'.pc = "idle" /\ UNCHANGED <<log, index, anchors, sess, res, hist>>

\* C11: iterating below head is an error, not a result. A GetNext called with
\* the cursor below end_scan and below head (or begin) fails, leaves `out`
\* unchanged and does not advance the cursor; with the cursor at or past
\* end_scan it returns false wherever head is.
C11_BelowHeadIsError ==
  [][GetNextStep =>
       /\ (iter.next_address < iter.end_address
             /\ (iter.next_address < head_address \/ iter.next_address < begin_address))
           => (iter'.ret = "throw" /\ out' = out /\ iter'.next_address = iter.next_address)
       /\ iter.next_address >= iter.end_address
           => (iter'.ret = "false" /\ out' = out)]_vars

\* a call failed on a cursor that head has passed, after the scan had yielded a record
C11_Witness ==
  /\ iter.ret = "throw"
  /\ iter.current_address < iter.end_address
  /\ iter.current_address < head_address
  /\ iter.current_address >= begin_address
  /\ out # 0

\* C12: the record the iterator produced is not reclaimed under the caller:
\* between a GetNext that returned true and the caller's next GetNext, the
\* address it wrote to `out` is not below head.
C12_YieldedStaysResident == iter.ret = "true" => out >= head_address

\* C13: the anchors are ordered, begin <= head <= safe_read_only <= read_only
\* <= tail, in every state, and no step lowers any of them.
C13_AnchorOrder ==
  /\ [](/\ begin_address <= head_address
        /\ head_address <= safe_read_only_address
        /\ safe_read_only_address <= read_only_address
        /\ read_only_address <= tail_address)
  /\ [][/\ begin_address' >= begin_address
        /\ head_address' >= head_address
        /\ safe_read_only_address' >= safe_read_only_address
        /\ read_only_address' >= read_only_address
        /\ tail_address' >= tail_address]_vars

\* every anchor has advanced, begin less far than head
C13_Witness ==
  /\ kBeginAddress < begin_address
  /\ begin_address < head_address
  /\ read_only_address <= tail_address

-----------------------------------------------------------------------------
(* Properties of the epoch manager *)

OnDrainList(e) == \E i \in DOMAIN sess.drain : sess.drain[i].epoch = e

\* C17: the drain action recorded by bump_and_wait at epoch E is invoked exactly
\* once: while it is on the drain list it has not run, once it is off the list
\* it has run once, and the step that runs it leaves every protected thread's
\* local_epoch at E or later.
C17_DrainExactlyOnce ==
  /\ [](\A e \in DOMAIN sess.ran :
          IF e <= sess.current_epoch
            THEN \/ OnDrainList(e) /\ sess.ran[e] = 0
                 \/ ~OnDrainList(e) /\ sess.ran[e] = 1
            ELSE ~OnDrainList(e) /\ sess.ran[e] = 0)
  /\ [][\A e \in DOMAIN sess.ran : sess.ran'[e] > sess.ran[e] => SafeAt(sess', e)]_vars

\* with both sessions protected, one action has run and a later one still
\* waits for a session that has not refreshed
C17_Witness ==
  /\ \A t \in Sessions : sess.local_epoch[t] # Infinity
  /\ \E e \in DOMAIN sess.ran : sess.ran[e] = 1
  /\ \E i \in DOMAIN sess.drain : ~SafeAt(sess, sess.drain[i].epoch)

-----------------------------------------------------------------------------
(* Properties of in-place updates *)

\* a step in which an Upsert or an RMW of the session wrote to the log
WriteStep == log' # log /\ res'.op \in {"upsert", "rmw"} /\ res'.status = Ok

\* C14: the mutability rule. A record already in the log changes only if its
\* address is at or above read_only; an Upsert or RMW of a key whose latest
\* record is below read_only leaves that record as it is and creates a new
\* record at a strictly greater address.
C14_MutabilityRule ==
  [][/\ \A a \in DOMAIN log : log'[a] # log[a] => a >= read_only_address
     /\ WriteStep =>
          LET a == Lookup(Engine, res'.key) IN
          (a # 0 /\ a < read_only_address) =>
             /\ log'[a] = log[a]
             /\ res'.addr > a
             /\ res'.addr \notin DOMAIN log
             /\ res'.addr \in DOMAIN log'
             /\ log'[res'.addr].key = res'.key]_vars

\* an RMW copied a live record that lies below read_only to the tail
C14_Witness ==
  /\ res.op = "rmw" /\ res.path = "copy"
  /\ res.addr >= read_only_address
  /\ \E a \in DOMAIN log :
       a < read_only_address /\ a < res.addr /\ log[a].key = res.key /\ ~log[a].tombstone

\* the input of the Upsert a step ran
UpsertInput ==
  IF stype = StoreBytes THEN hist'.lastw[res'.key].val.bytes ELSE hist'.lastw[res'.key].val

\* the bytes of a value other than its lock word
Payload(ty, value) == IF ty = StoreBytes THEN [value EXCEPT !.gen_lock = 0] ELSE value

\* a step in which the session ran an Upsert of a key whose latest record is
\* live and in the mutable region
UpsertOnMutable(a) ==
  /\ log' # log /\ res'.op = "upsert"
  /\ a = Lookup(Engine, res'.key)
  /\ a # 0 /\ Mutable(Engine, a) /\ ~log[a].tombstone

\* C15: an Upsert overwrites a record in place only when the new value is no
\* larger than the record's current size; a larger value leaves the record's
\* value bytes as they are, marks the record replaced where the value has a
\* lock, and goes to a new record. For the byte-buffer, person, auctions and
\* u64 contexts.
C15_InPlaceOnlyIfFits ==
  [][\A a \in DOMAIN log :
       UpsertOnMutable(a) =>
         LET new_size == value_size(stype, UpsertInput)
             fits == new_size <= value_size_of(stype, log[a].value)
         IN /\ Payload(stype, log'[a].value) # Payload(stype, log[a].value) => fits
            /\ ~fits =>
                 /\ Payload(stype, log'[a].value) = Payload(stype, log[a].value)
                 /\ stype = StoreBytes => replaced(log'[a].value.gen_lock) = 1
                 /\ res'.path = "append" /\ res'.addr > a]_vars

-----------------------------------------------------------------------------
(* Properties of the generation lock *)

\* C16: the generation number counts the in-place mutations. It changes only
\* in a step of the thread that holds the lock, the value's bytes change only
\* under the lock, and a PutAtomic or RmwAtomic that took the lock returns with
\* the generation exactly one above the one it locked, whether it wrote the
\* value or marked it replaced.
C16_GenerationCounts ==
  [][LET g == TheValue.gen_lock
         h == TheValue'.gen_lock
     IN /\ gen_number(h) # gen_number(g) => locked(g) = 1 /\ locked(h) = 0
        /\ Payload(StoreBytes, TheValue') # Payload(StoreBytes, TheValue)
             => locked(g) = 1 /\ h = g
        /\ \A t \in Writers :
             (sess[t].pc \in {"unlock", "check_size"} /\ sess'[t].pc = "idle")
               => /\ gen_number(h) = gen_number(sess[t].expected) + 1
                  /\ locked(h) = 0]_vars

\* an RmwAtomic has written the value in place, after a PutAtomic had
C16_Witness ==
  \E t \in Writers :
    /\ sess[t].op = "rmw" /\ sess[t].pc = "idle" /\ sess[t].ret = "true"
    /\ gen_number(TheValue.gen_lock) = MaxWrites
    /\ TheValue.length_ = Len(sess[t].input)

-----------------------------------------------------------------------------
(* Properties of sessions *)

\* C18: within one session the serial numbers of successive operations are
\* strictly increasing: an operation whose serial number is not greater than
\* the session's previous one does not return Ok.
C18_SerialsStrictlyIncrease ==
  (res.op = "upsert" /\ res.status = Ok /\ sess.previous # 0) => sess.serial > sess.previous

-----------------------------------------------------------------------------
(* Properties of pending operations *)

InQueue(id) == \E i \in DOMAIN sess.pending : sess.pending[i].id = id

\* C19: pending operations complete. An operation that returned Pending is on
\* the queue with its completion callback not yet fired, or off the queue with
\* the callback fired exactly once; CompletePending(wait = true) returns only
\* with the queue empty, and it does return once the disk has read every
\* pending record.
C19_PendingComplete ==
  /\ [](\A id \in DOMAIN hist.calls :
          (hist.calls[id].issued /\ hist.calls[id].status = Pending)
            => \/ InQueue(id) /\ hist.calls[id].fired = 0
               \/ ~InQueue(id) /\ hist.calls[id].fired = 1)
  /\ [][(sess.cp = "wait" /\ sess'.cp = "idle") => sess'.pending = <<>>]_vars
  /\ (sess.cp = "wait") ~> (sess.cp = "idle")

\* CompletePending(true) has returned after completing a Read and an Upsert
\* that were pending
C19_Witness ==
  /\ sess.cp = "idle" /\ sess.pending = <<>>
  /\ \E id \in DOMAIN hist.calls :
       hist.calls[id].op = "read" /\ hist.calls[id].status = Pending
         /\ hist.calls[id].fired = 1
  /\ \E id \in DOMAIN hist.calls :
       hist.calls[id].op = "upsert" /\ hist.calls[id].status = Pending
         /\ hist.calls[id].fired = 1

-----------------------------------------------------------------------------
(* Properties of the index grow *)

\* C21: index grow idempotence. Once grow_index has returned true and the
\* rehash is complete, the bucket count is twice what it was at the call;
\* and at every moment, during and after the rehash, the lookup of every key
\* finds the address its last Upsert left, so no key becomes unreachable.
C21_GrowIdempotent ==
  /\ \A k \in ScanKeys : IndexLookup(k) = hist.address[k]
  /\ (sess.calls > 0 /\ sess.ret /\ sess.phase = "rest") => Size(index) = 2 * hist.size

-----------------------------------------------------------------------------
(* Properties of closing a session *)

\* C24: close releases the session. A thread whose session was started with
\* faster_start_session and then stopped with faster_stop_session holds no
\* epoch entry any more (its local_epoch is unprotected), whatever the store
\* type of the handle, so it does not hold back the drain actions.
C24_CloseReleases ==
  \A t \in Sessions : ~hist.open[t] => sess.local_epoch[t] = Infinity

-----------------------------------------------------------------------------
(* Properties of checkpoints *)

\* C23: checkpoint phase order. A checkpoint goes from Rest through Prepare,
\* InProgress, WaitPending, WaitFlush and PersistenceCallback back to Rest, one
\* phase at a time in that order; a phase other than Rest is left only when
\* every active session has refreshed to the epoch at which it was entered;
\* every record appended after the Prepare to InProgress transition carries
\* in_new_version = 1; and with all sessions refreshing the checkpoint always
\* eventually returns to Rest.
C23_PhaseOrder ==
  /\ [][sess'.phase # sess.phase =>
         /\ sess'.phase = Phases[(((CHOOSE j \in DOMAIN Phases : Phases[j] = sess.phase)
                                     % Len(Phases)) + 1)]
         /\ sess.phase # "Rest" =>
              \A t \in Sessions : sess'.local_epoch[t] >= sess.entered]_vars
  /\ [](\A a \in DOMAIN hist.at :
          hist.at[a] \notin {"Rest", "Prepare"} => hist.in_new_version[a])
  /\ (sess.phase # "Rest") ~> (sess.phase = "Rest")

\* a checkpoint went through all its phases with two sessions active, and a
\* record was appended while it was in progress
C23_Witness ==
  /\ sess.started > 0
  /\ sess.phase = "Rest"
  /\ \A t \in Sessions : sess.local_epoch[t] # Infinity
  /\ \E a \in DOMAIN hist.at : hist.at[a] = "WaitFlush" /\ hist.in_new_version[a]

-----------------------------------------------------------------------------
(* Properties of the generation lock under contention *)

\* the writers between a successful try_lock and their unlock
Holders == {t \in Writers : sess[t].pc \in {"check_size", "write_length", "memcpy", "unlock"}}

\* C25: generation-lock mutual exclusion. A try_lock succeeds only on a lock
\* word with locked = 0 and replaced = 0, and leaves it with locked = 1 and the
\* same generation; so at most one thread is between a successful try_lock
\* and its unlock on the record, and the word is locked while one is.
C25_MutualExclusion ==
  /\ [](/\ Cardinality(Holders) <= 1
        /\ Holders # {} => (locked(TheValue.gen_lock) = 1 /\ replaced(TheValue.gen_lock) = 0))
  /\ [][\A t \in Writers :
          (sess[t].pc = "try_cas" /\ sess'[t].pc = "check_size") =>
             /\ locked(TheValue.gen_lock) = 0
             /\ replaced(TheValue.gen_lock) = 0
             /\ locked(log'[TheAddress].value.gen_lock) = 1
             /\ replaced(log'[TheAddress].value.gen_lock) = 0
             /\ gen_number(log'[TheAddress].value.gen_lock) = gen_number(TheValue.gen_lock)]_vars

\* one writer holds the lock and the other's compare-exchange has just failed
\* on the locked word
C25_Witness ==
  \E t \in Writers : \E u \in Writers \ {t} :
    /\ sess[t].pc = "memcpy"
    /\ sess[u].pc = "try_load"
    /\ locked(sess[u].expected) = 1

\* C26: the replaced mark is final. Once an unlock(true) has set the replaced
\* bit of the record's lock word, no step changes the record again (neither its
\* lock word nor its length nor its bytes), every try_lock on it fails, and the
\* PutAtomic or RmwAtomic that called it returns false without having held the
\* lock.
C26_ReplacedIsFinal ==
  /\ [](TheValue.gen_lock >= ReplacedBit => Holders = {})
  /\ [][TheValue.gen_lock >= ReplacedBit =>
          /\ log' = log
          /\ \A t \in Writers :
               (sess[t].pc = "try_cas" /\ sess'[t] # sess[t]) =>
                  (sess'[t].pc = "idle" /\ sess'[t].ret = "false")]_vars

\* the record was replaced, and a call that came after that returned false
\* from its try_lock
C26_Witness ==
  /\ TheValue.gen_lock >= ReplacedBit
  /\ \E t \in Writers :
       sess[t].pc = "idle" /\ sess[t].ret = "false" /\ sess[t].expected >= ReplacedBit

\* C27: unlock is exact for every generation value. After unlock(grew) on a
\* word with locked = 1, replaced = 0 and generation g, the word has
\* locked = 0, replaced = 1 exactly if grew, and generation g + 1 modulo the
\* range of gen_number, also when g is the largest generation.
C27_UnlockExact ==
  sess.last = "unlock" =>
    /\ locked(TheValue.gen_lock) = 0
    /\ replaced(TheValue.gen_lock) = (IF sess.grew THEN 1 ELSE 0)
    /\ gen_number(TheValue.gen_lock) = (gen_number(sess.before) + 1) % LockedBit

-----------------------------------------------------------------------------
(* Properties of the scan of a concurrently written log *)

\* C29: every GetNext call terminates. Whatever the log holds between
\* begin_scan and end_scan, records with an invalid header included, a call
\* returns true, returns false or raises an error; it never stays in its loop
\* with the cursor on a record it was to skip.
C29_GetNextTerminates == iter.ret # "hang"

-----------------------------------------------------------------------------
(* Properties of the read path *)

\* the last operation was a Read that hit a record: in memory and not a tombstone
Hit == sess.address # 0 /\ sess.address >= sess.head /\ ~sess.tombstone

\* C30: read path selection. A Read that hits a record at address a invokes
\* GetAtomic exactly if a >= safe_read_only and Get exactly if
\* head <= a < safe_read_only, one of the two and never both; a Read that hits
\* no record invokes neither. In a store whose safe_read_only has not advanced
\* Get is never invoked (the Get of the iterator test would fail the test).
C30_ReadPath ==
  res.op = "read" =>
    /\ (res.path = "getatomic") <=> (Hit /\ sess.address >= sess.safe_read_only)
    /\ (res.path = "get") <=> (Hit /\ sess.address < sess.safe_read_only)
    /\ Hit => (res.status = Ok /\ res.addr = sess.address)
    /\ ~Hit => res.status # Ok
    /\ (stype = StoreU8 /\ res.path = "getatomic") => res.out = sess.value.value_
    /\ (stype = StoreU8 /\ res.path = "get") => res.out = "failed"
    /\ sess.safe_read_only = kBeginAddress => res.path # "get"

\* head has advanced, and a Read of a record between head and safe_read_only
\* went through Get
C30_Witness ==
  /\ res.op = "read"
  /\ res.path = "get"
  /\ sess.head > kBeginAddress
  /\ sess.address >= sess.head
  /\ sess.address < sess.safe_read_only

-----------------------------------------------------------------------------
(* Properties of the RMW contexts *)

\* C31: the in-place and the copy path of an RMW agree. Whenever an RMW found a
\* value old and succeeded in place or by copy, the value it left is
\* RmwCopy(old, new) of its context, and it is the value RmwAtomic(old) leaves
\* whenever RmwAtomic succeeds on old (u64 add and decrease, u64 pair,
\* ten elements, the auction of an auction-bids value).
C31_PathsAgree ==
  (res.op = "rmw" /\ res.path \in {"atomic", "copy"}) =>
    /\ CtxValue = CtxCopy(sess.ctx, sess.mods[sess.n], sess.old)
    /\ CtxAtomic(sess.ctx, sess.mods[sess.n], sess.old).ok =>
         CtxValue = CtxAtomic(sess.ctx, sess.mods[sess.n], sess.old).value

\* an in-place RMW on a ten-elements value whose ring has wrapped
C31_Witness ==
  /\ res.op = "rmw"
  /\ res.path = "atomic"
  /\ sess.ctx = "RmwTenElementsContext"
  /\ sess.n > TenSlots

\* the modifications a ring of ten elements is to hold after n RMWs: the last ten
Kept == SubSeq(sess.mods, IF sess.n > TenSlots THEN sess.n - TenSlots + 1 ELSE 1, sess.n)

\* C32: the ring buffer of ten elements. After n >= 1 RMWs on one key, over any
\* mix of initial, copy and in-place paths, the value has length min(n, 10) and
\* tail n mod 10, its slots hold exactly the last min(n, 10) modifications (the
\* j-th modification in slot (j - 1) mod 10), and a Read reports the integer
\* average of those modifications.
C32_RingBuffer ==
  (stype = StoreTenElements /\ sess.n >= 1) =>
    /\ CtxValue.length_ = Len(Kept)
    /\ CtxValue.tail_ = sess.n % TenSlots
    /\ \A j \in (sess.n - Len(Kept) + 1)..sess.n :
         CtxValue.buffer[((j - 1) % TenSlots) + 1] = sess.mods[j]
    /\ \A i \in (Len(Kept) + 1)..TenSlots : CtxValue.buffer[i] = 0
    /\ (res.op = "read" /\ res.status = Ok) => res.out = Sum(Kept) \div Len(Kept)

\* C33: the first RMW on an absent ten-elements key is deterministic. The value
\* it creates depends on the modification m only, whatever the memory of the
\* record held before: length 1, tail 1, slot 0 = m and slots 1..9 = 0.
C33_InitialDeterministic ==
  (stype = StoreTenElements /\ res.op = "rmw" /\ res.path = "initial") =>
    CtxValue = TenElementsValue(1, 1, [i \in 1..TenSlots |->
                                         IF i = 1 THEN sess.mods[sess.n] ELSE 0])

-----------------------------------------------------------------------------
(* Properties of the retried byte-buffer RMW *)

\* C34: a byte-buffer RMW uses the length of the value it merges. Whenever
\* RmwAtomic or RmwCopy has written a merged value, the length it stored and the
\* size it checked against the capacity (or asked the allocator for) are those
\* of the callback's merge of that record's value and the modification, also
\* in a retry against another record.
C34_LengthOfTheMerge ==
  hist.last.by # "none" =>
    /\ hist.last.stored = hist.last.merged
    /\ hist.last.checked = SizeofValue + hist.last.merged

-----------------------------------------------------------------------------
(* Properties of the owned input buffers *)

\* C35: an owned input buffer is deallocated exactly once and never read
\* afterwards. No Upsert deallocates its input twice, an Upsert that has
\* returned has deallocated it once, and no Put or PutAtomic has read a buffer
\* that was deallocated, also when the operation is retried after a CAS miss.
C35_ReleasedOnce ==
  /\ ~hist.read_freed
  /\ \A t \in Sessions :
       /\ sess[t].frees <= 1
       /\ (sess[t].pc = "idle" /\ sess[t].buffer # "none") => sess[t].frees = 1

-----------------------------------------------------------------------------
(* Properties of the value sizes *)

\* the input of the Upsert that ran last
LastInput ==
  IF stype = StoreBytes THEN hist.lastw[res.key].val.bytes ELSE hist.lastw[res.key].val

\* C36: the reported size is the allocated size. After Put has initialised a
\* new record, value.size() is the value_size() its context returned for the
\* allocation, and the record's size leads from its address exactly to the end
\* of its allocation, where the next record starts (byte-buffer, person,
\* auctions and u64 values).
C36_SizeIsAllocatedSize ==
  (res.op = "upsert" /\ res.status = Ok /\ res.path \in {"put", "append"}) =>
    /\ value_size_of(stype, log[res.addr].value) = value_size(stype, LastInput)
    /\ res.addr + record_size(stype, log[res.addr]) = tail_address

\* C37: an in-place update never changes a record's size. In a step in which
\* an Upsert succeeded in place (PutAtomic returned true) the value's size() is
\* what it was before the step: only the length and the payload change.
C37_InPlaceKeepsSize ==
  [][\A a \in DOMAIN log :
       (res'.op = "upsert" /\ res'.path = "putatomic" /\ res'.addr = a /\ log' # log) =>
         value_size_of(stype, log'[a].value) = value_size_of(stype, log[a].value)]_vars

-----------------------------------------------------------------------------
(* Properties of the auctions RMW *)

\* C38: an auctions RMW on an absent key installs the modification list. The
\* value faster_rmw_auctions(k, m, n) creates has length n and the elements
\* m[0..n-1], and no more bytes are written into the record than the
\* value_size() requested for its allocation.
C38_InitialInstallsList ==
  (res.op = "rmw" /\ res.path = "initial") =>
    /\ log[res.addr].value.length_ = Len(sess.vector)
    /\ log[res.addr].value.buffer = sess.vector
    /\ sess.written <= sess.requested

-----------------------------------------------------------------------------
(* Properties of the record chains *)

\* the addresses a walk from `address` visits, following previous_address until
\* null, an address below begin, or n records have been visited
RECURSIVE Walk(_, _, _, _)
Walk(lg, address, begin, n) ==
  IF address = 0 \/ address < begin \/ address \notin DOMAIN lg \/ n = 0 THEN <<>>
  ELSE <<address>> \o Walk(lg, lg[address].previous_address, begin, n - 1)

\* C39: record chains strictly decrease. Every record's previous_address is
\* null or below the record's own address, and the walk from every index entry
\* visits strictly decreasing addresses and ends, at null or below begin, before
\* it has visited more records than the log holds; this also holds while
\* Upserts, RMWs and Deletes of one key run concurrently and retry after a
\* missed compare-and-swap.
C39_ChainsDecrease ==
  /\ \A a \in DOMAIN log : log[a].previous_address = 0 \/ log[a].previous_address < a
  /\ \A g \in DOMAIN index :
       LET w == Walk(log, index[g], begin_address, Cardinality(DOMAIN log) + 1)
       IN /\ Len(w) <= Cardinality(DOMAIN log)
          /\ \A i \in 1..(Len(w) - 1) : w[i + 1] < w[i]

\* a compare-and-swap missed, its operation ran again, and the chain holds three
\* records, one of them a tombstone
C39_Witness ==
  /\ \E a \in DOMAIN log : log[a].invalid
  /\ \E g \in DOMAIN index :
       LET w == Walk(log, index[g], begin_address, Cardinality(DOMAIN log) + 1)
       IN /\ Len(w) >= 3
          /\ \E i \in 1..Len(w) : log[w[i]].tombstone
          /\ \A i \in 1..Len(w) : ~log[w[i]].invalid

-----------------------------------------------------------------------------
(* Properties of the scan through the C interface *)

\* C40: the get_next shim is safe at the end of a scan. When GetNext returned
\* false, also on the first call over an empty range while the record holder
\* names no record, the shim has returned status = false and has read neither
\* the holder's key nor its value.
C40_SafeAtEnd ==
  (sess.called /\ iter.ret = "false") => (~sess.status /\ ~sess.reads /\ ~sess.crash)

====
